---- MODULE Spec2Model ----
(***************************************************************************)
(* Verification model of the Slovak -> Czech text pipeline of              *)
(* src/article_translator.py (class SlovakCzechTranslator).                *)
(*                                                                         *)
(* A text is a sequence of characters; a character is a one-element value  *)
(* written as a string.  ASCII characters are written as themselves.  The  *)
(* Czech letters are written letter + accent mark: "a'" is a-acute, "c^"   *)
(* is c-caron, "u*" is u-ring, "deg" is the degree sign.  Every regular    *)
(* expression of the source is kept as data (a sequence of atoms) and run  *)
(* by one backtracking matcher with Python's leftmost, greedy,             *)
(* non-overlapping re.sub semantics.                                       *)
(***************************************************************************)
EXTENDS Integers, Sequences, FiniteSets, TLC

VARIABLES
    fn,                \* which entry point of the class the behaviour exercises
    inp,               \* the text handed to the entry point
    hist,              \* results of the successive applications of a pure method
    html_replacements, \* self.html_replacements: the tags behind the placeholders
    pc,                \* where the running call of the entry point stands
    preprocessed_text, \* translate_with_google: the shielded text
    attempt,           \* translate_with_google: the loop variable
    long_sentences,    \* _translate_long_text: the parts of the split text
    part,              \* _translate_long_text: index of the part the loop stands at
    current_chunk,     \* _translate_long_text: the chunk being sent
    translated_parts,  \* _translate_long_text: the results so far
    translated,        \* translate_text: the text between two stages
    ret,               \* the value the entry point returned
    log,               \* the calls of the translation engine and the sleeps, in order
    article_content,   \* translate_article: the content region as it was extracted
    translated_content,\* translate_article: the copy of the region that is translated
    text_node,         \* translate_html_content: index of the string being translated
    doc_pc,            \* where the processing of the document stands
    fixed_soup,        \* translate_html_content: the top-level nodes of fixed_soup
    child_index,       \* translate_html_content: position of the iterator of the last loop
    url_index,         \* process_urls_list: the loop variable i
    results,           \* BatchTranslator.results
    errors             \* BatchTranslator.errors

pureVars == <<fn, inp, hist>>
callVars == <<pc, preprocessed_text, attempt, long_sentences, part, current_chunk,
              translated_parts, translated, ret, log>>
reparseVars == <<fixed_soup, child_index>>
docVars == <<article_content, translated_content, text_node, doc_pc, reparseVars>>
batchVars == <<url_index, results, errors>>
outerVars == <<docVars, batchVars>>
vars == <<fn, inp, hist, html_replacements, pc, preprocessed_text, attempt, long_sentences,
          part, current_chunk, translated_parts, translated, ret, log,
          article_content, translated_content, text_node, doc_pc, fixed_soup, child_index,
          url_index, results, errors>>

\* the value of a name that holds nothing yet (Python's None)
None == <<"None">>

\* self.html_replacements before the first preprocess_for_translation: no attribute
NoAttr == [has |-> FALSE, tags |-> <<>>]

\* no document is being processed
NoDocument ==
    /\ article_content = None
    /\ translated_content = None
    /\ text_node = 0
    /\ doc_pc = "none"
    /\ fixed_soup = <<>>
    /\ child_index = 0

\* no batch is being processed
NoBatch ==
    /\ url_index = 0
    /\ results = <<>>
    /\ errors = <<>>

\* the state of the call at position p when nothing of it has run yet
Idle(p) ==
    /\ pc = p
    /\ preprocessed_text = None
    /\ attempt = 0
    /\ long_sentences = <<>>
    /\ part = 0
    /\ current_chunk = <<>>
    /\ translated_parts = <<>>
    /\ translated = None
    /\ ret = None
    /\ log = <<>>
    /\ NoDocument
    /\ NoBatch

\* no call of translate_text or translate_with_google is running
NoCall == Idle("none")

-----------------------------------------------------------------------------
(* Characters and the character classes the regular expressions use.       *)

AsciiLower == {"a","b","c","d","e","f","g","h","i","j","k","l","m",
               "n","o","p","q","r","s","t","u","v","w","x","y","z"}
AsciiUpper == {"A","B","C","D","E","F","G","H","I","J","K","L","M",
               "N","O","P","Q","R","S","T","U","V","W","X","Y","Z"}
Digits == {"0","1","2","3","4","5","6","7","8","9"}
\* a'c^d^e'e^i'n^o'r^s^t^u'u*y'z^  (the class [a-z + Czech lower case letters])
CzLower == {"a'","c^","d^","e'","e^","i'","n^","o'","r^","s^","t^","u'","u*","y'","z^"}
CzUpper == {"A'","C^","D^","E'","E^","I'","N^","O'","R^","S^","T^","U'","U*","Y'","Z^"}
LowerCz == AsciiLower \cup CzLower          \* [a-z...z^]
UpperCz == AsciiUpper \cup CzUpper          \* [A-Z...Z^]
Alpha == LowerCz \cup UpperCz               \* str.isalpha
\* \w of a Python 3 str pattern: Unicode letters, digits and underscore
WordChars == Alpha \cup Digits \cup {"_"}
\* \s
White == {" ", "\n", "\t", "\r"}
\* the range À-ſ restricted to the letters of the model
Latin1Ext == CzLower \cup CzUpper

LowerSeq == <<"a","b","c","d","e","f","g","h","i","j","k","l","m",
              "n","o","p","q","r","s","t","u","v","w","x","y","z",
              "a'","c^","d^","e'","e^","i'","n^","o'","r^","s^","t^","u'","u*","y'","z^">>
UpperSeq == <<"A","B","C","D","E","F","G","H","I","J","K","L","M",
              "N","O","P","Q","R","S","T","U","V","W","X","Y","Z",
              "A'","C^","D^","E'","E^","I'","N^","O'","R^","S^","T^","U'","U*","Y'","Z^">>

\* str.upper / str.lower on one character
ToUpper(c) == IF c \in LowerCz THEN UpperSeq[CHOOSE i \in 1..Len(LowerSeq) : LowerSeq[i] = c] ELSE c
ToLower(c) == IF c \in UpperCz THEN LowerSeq[CHOOSE i \in 1..Len(UpperSeq) : UpperSeq[i] = c] ELSE c
\* str.isupper on one character
IsUpperChar(c) == c \in UpperCz

-----------------------------------------------------------------------------
(* Pattern atoms.                                                          *)

Lit(w) == [t |-> "lit", w |-> w]                                   \* literal text
Rep(cs, neg, lo, hi) == [t |-> "rep", cs |-> cs, neg |-> neg, min |-> lo, max |-> hi]
Inf == 0 - 1                                                       \* no upper limit of a quantifier
One(cs) == Rep(cs, FALSE, 1, 1)                                    \* [cs]
NotOne(cs) == Rep(cs, TRUE, 1, 1)                                  \* [^cs]
Star(cs) == Rep(cs, FALSE, 0, Inf)                                 \* [cs]*
NotStar(cs) == Rep(cs, TRUE, 0, Inf)                               \* [^cs]*
Plus(cs) == Rep(cs, FALSE, 1, Inf)                                 \* [cs]+
NotPlus(cs) == Rep(cs, TRUE, 1, Inf)                               \* [^cs]+
AtLeast(cs, n) == Rep(cs, FALSE, n, Inf)                           \* [cs]{n,}
Opt(cs) == Rep(cs, FALSE, 0, 1)                                    \* [cs]?
Alt(ws) == [t |-> "alt", ws |-> ws]                                \* (?:w1|w2|...), in order
WB == [t |-> "wb"]                                                 \* \b
NLA(ws) == [t |-> "nla", ws |-> ws]                                \* (?!w1|w2|...)
Mark == [t |-> "mark"]                                             \* end of group 1
Bol == [t |-> "bol"]                                               \* ^
Eol == [t |-> "eol"]                                               \* $

NoMatch == <<0, 0>>

\* c is matched by the class of atom a; with re.IGNORECASE either case of c may match
InClass(a, c, ic) ==
    LET hit == IF ic THEN (c \in a.cs \/ ToLower(c) \in a.cs \/ ToUpper(c) \in a.cs)
               ELSE c \in a.cs
    IN  IF a.neg THEN ~hit ELSE hit

\* the literal w stands in s at position i
LitAt(w, s, i, ic) ==
    /\ i + Len(w) - 1 <= Len(s)
    /\ \A j \in 1..Len(w) :
          IF ic THEN ToLower(s[i + j - 1]) = ToLower(w[j]) ELSE s[i + j - 1] = w[j]

\* the character before position i is a word character (FALSE at the ends)
WordAt(s, i) == i >= 1 /\ i <= Len(s) /\ s[i] \in WordChars

\* number of consecutive characters of the class of a from position i, at most a.max
RECURSIVE Run(_, _, _, _, _)
Run(a, s, i, ic, n) ==
    IF (a.max # Inf /\ n >= a.max) \/ i + n > Len(s) THEN n
    ELSE IF InClass(a, s[i + n], ic) THEN Run(a, s, i, ic, n + 1) ELSE n

\* MatchFrom: the preferred match of pat[k..] at position i of s, as
\* <<position after the match, position where group 2 starts>>, or NoMatch.
RECURSIVE MatchFrom(_, _, _, _, _, _)
RECURSIVE TryRep(_, _, _, _, _, _, _)
RECURSIVE TryAlt(_, _, _, _, _, _, _)
MatchFrom(pat, k, s, i, g, ic) ==
    IF k > Len(pat) THEN <<i, g>>
    ELSE LET a == pat[k] IN
         CASE a.t = "lit" -> IF LitAt(a.w, s, i, ic)
                              THEN MatchFrom(pat, k + 1, s, i + Len(a.w), g, ic)
                              ELSE NoMatch
           [] a.t = "rep" -> TryRep(pat, k, s, i, g, ic, Run(a, s, i, ic, 0))
           [] a.t = "alt" -> TryAlt(pat, k, s, i, g, ic, 1)
           [] a.t = "wb" -> IF WordAt(s, i - 1) # WordAt(s, i)
                             THEN MatchFrom(pat, k + 1, s, i, g, ic)
                             ELSE NoMatch
           [] a.t = "nla" -> IF \E j \in 1..Len(a.ws) : LitAt(a.ws[j], s, i, ic)
                              THEN NoMatch
                              ELSE MatchFrom(pat, k + 1, s, i, g, ic)
           [] a.t = "mark" -> MatchFrom(pat, k + 1, s, i, i, ic)
           [] a.t = "bol" -> IF i = 1 THEN MatchFrom(pat, k + 1, s, i, g, ic) ELSE NoMatch
           [] a.t = "eol" -> IF i = Len(s) + 1 \/ (i = Len(s) /\ s[i] = "\n")
                              THEN MatchFrom(pat, k + 1, s, i, g, ic)
                              ELSE NoMatch

\* greedy repetition: the longest run first, then shorter ones down to a.min
TryRep(pat, k, s, i, g, ic, n) ==
    IF n < pat[k].min THEN NoMatch
    ELSE LET r == MatchFrom(pat, k + 1, s, i + n, g, ic) IN
         IF r # NoMatch THEN r ELSE TryRep(pat, k, s, i, g, ic, n - 1)

\* alternation: the first alternative after which the rest of the pattern matches
TryAlt(pat, k, s, i, g, ic, j) ==
    IF j > Len(pat[k].ws) THEN NoMatch
    ELSE LET r == IF LitAt(pat[k].ws[j], s, i, ic)
                  THEN MatchFrom(pat, k + 1, s, i + Len(pat[k].ws[j]), g, ic)
                  ELSE NoMatch
         IN  IF r # NoMatch THEN r ELSE TryAlt(pat, k, s, i, g, ic, j + 1)

-----------------------------------------------------------------------------
(* Replacement templates and re.sub / str.replace.                         *)

InsSpace == [t |-> "ins"]              \* r'\1 \2'
Const(w) == [t |-> "const", w |-> w]   \* a fixed text
UpperG2 == [t |-> "upper"]             \* lambda m: m.group(1) + m.group(2).upper()

UpperText(s) == [j \in 1..Len(s) |-> ToUpper(s[j])]
LowerText(s) == [j \in 1..Len(s) |-> ToLower(s[j])]

\* the text that replaces the match s[i..e-1] whose group 2 starts at g
Replacement(rep, s, i, g, e) ==
    CASE rep.t = "ins" -> SubSeq(s, i, g - 1) \o <<" ">> \o SubSeq(s, g, e - 1)
      [] rep.t = "const" -> rep.w
      [] rep.t = "upper" -> SubSeq(s, i, g - 1) \o UpperText(SubSeq(s, g, e - 1))

\* the least element of a non-empty set of positions
MinOf(S) == CHOOSE x \in S : \A y \in S : x <= y

\* TRUE; used as a guard so that v is computed before the evaluation goes on
Force(v) == Len(v) >= 0

\* the first position >= i where pat matches a non-empty text, or 0
NextMatch(pat, s, i, ic) ==
    LET c == {j \in i..Len(s) : MatchFrom(pat, 1, s, j, j, ic)[1] > j}
    IN  IF c = {} THEN 0 ELSE MinOf(c)

\* left to right, non-overlapping; no pattern of the source matches the empty text
RECURSIVE SubFrom(_, _, _, _, _)
SubFrom(pat, rep, s, i, ic) ==
    LET j == NextMatch(pat, s, i, ic) IN
    IF j = 0 THEN SubSeq(s, i, Len(s))
    ELSE LET m == MatchFrom(pat, 1, s, j, j, ic) IN
         SubSeq(s, i, j - 1) \o Replacement(rep, s, j, m[2], m[1])
             \o SubFrom(pat, rep, s, m[1], ic)

\* re.sub(pat, rep, s) and re.sub(pat, rep, s, flags=re.IGNORECASE)
re_sub(pat, rep, s) == SubFrom(pat, rep, s, 1, FALSE)
re_sub_ic(pat, rep, s) == SubFrom(pat, rep, s, 1, TRUE)

\* old occurs in s
Contains(s, old) == \E i \in 1..(Len(s) - Len(old) + 1) : LitAt(old, s, i, FALSE)

\* s.replace(old, new)
str_replace(s, old, new) == re_sub(<<Lit(old)>>, Const(new), s)

\* number of non-overlapping occurrences of w in s, counted from the left (str.count)
RECURSIVE CountFrom(_, _, _)
CountFrom(s, w, i) ==
    IF i + Len(w) - 1 > Len(s) THEN 0
    ELSE IF LitAt(w, s, i, FALSE) THEN 1 + CountFrom(s, w, i + Len(w))
         ELSE CountFrom(s, w, i + 1)
str_count(s, w) == CountFrom(s, w, 1)


-----------------------------------------------------------------------------
(* A method body that is a sequence of re.sub / str.replace statements is  *)
(* kept as the sequence of its passes and run in order.                    *)

Pass(pat, rep) == [pat |-> pat, rep |-> rep, ic |-> FALSE]      \* re.sub(pat, rep, s)
PassIC(pat, rep) == [pat |-> pat, rep |-> rep, ic |-> TRUE]     \* ... flags=re.IGNORECASE
ReplacePass(old, new) == Pass(<<Lit(old)>>, Const(new))         \* s.replace(old, new)

ApplyPass(p, s) == SubFrom(p.pat, p.rep, s, 1, p.ic)

\* the passes ps[lo..hi] applied to s one after the other, in order
RECURSIVE RunRange(_, _, _, _)
RunRange(ps, lo, hi, s) ==
    IF lo > hi THEN s
    ELSE IF lo = hi THEN ApplyPass(ps[lo], s)
    ELSE LET mid == (lo + hi) \div 2
             half == RunRange(ps, lo, mid, s)
         IN  IF Force(half) THEN RunRange(ps, mid + 1, hi, half) ELSE half
RunPasses(ps, s) == RunRange(ps, 1, Len(ps), s)

-----------------------------------------------------------------------------
(* fix_html_spacing: the spacing reconciliation (article_translator.py,    *)
(* lines 408-466).                                                         *)

\* html_tags = ['strong', 'em', 'b', 'i', 'u', 'span']
html_tags ==
  <<
    <<"s","t","r","o","n","g">>, <<"e","m">>, <<"b">>, <<"i">>, <<"u">>, <<"s","p","a","n">>
  >>

SentPunct == {".", ",", ";", ":", "!", "?"}
WordOrPunct == WordChars \cup SentPunct        \* [\w.,;:!?]

\* <tag[^>]*>
OpenTag(tag) == <<Lit(<<"<">> \o tag), NotStar({">"}), Lit(<<">">>)>>
\* </tag>
CloseTag(tag) == <<Lit(<<"<", "/">> \o tag \o <<">">>)>>
\* <(?:strong|em|b|i|u|span)[^>]*>
AnyOpenTag == <<Lit(<<"<">>), Alt(html_tags), NotStar({">"}), Lit(<<">">>)>>
\* </(?:strong|em|b|i|u|span)>
AnyCloseTag == <<Lit(<<"<", "/">>), Alt(html_tags), Lit(<<">">>)>>

\* PHASE 1, for tag in html_tags: ([\w.,;:!?])(<tag[^>]*>) -> \1 \2
SpacingPhase1 ==
    [k \in 1..Len(html_tags) |->
        Pass(<<One(WordOrPunct), Mark>> \o OpenTag(html_tags[k]), InsSpace)]
\* PHASE 2, for tag in html_tags: (</tag>)([\w]) -> \1 \2
SpacingPhase2 ==
    [k \in 1..Len(html_tags) |->
        Pass(CloseTag(html_tags[k]) \o <<Mark, One(WordChars)>>, InsSpace)]
\* PHASE 3: ([.!?:;,])(<(?:strong|em|b|i|u|span)[^>]*>) -> \1 \2
SpacingPhase3 ==
    <<Pass(<<One({".", "!", "?", ":", ";", ","}), Mark>> \o AnyOpenTag, InsSpace)>>

czech_words ==
  <<
    <<"n","a">>, <<"p","r","o">>, <<"d","o">>, <<"z","a">>, <<"o","d">>, <<"p","o">>,
    <<"p","r^","i">>, <<"p","r^","e","d">>, <<"n","a","d">>, <<"p","o","d">>,
    <<"m","e","z","i">>, <<"v">>, <<"s">>, <<"k">>, <<"o">>, <<"u">>, <<"z">>, <<"i">>,
    <<"a">>, <<"a","l","e">>, <<"n","e","b","o">>, <<"z^","e">>, <<"a","b","y">>,
    <<"n","a'","s","t","r","o","j">>, <<"p","r","o","g","r","a","m">>,
    <<"f","u","n","k","c","e">>, <<"m","o","z^","n","o","s","t">>,
    <<"z","p","u*","s","o","b">>, <<"m","e","t","o","d","a">>
  >>

\* PHASE 4, for word in czech_words: for tag in html_tags: \bword(<tag[^>]*>) -> word \1
SpacingPhase4 ==
    [n \in 1..(Len(czech_words) * Len(html_tags)) |->
        LET word == czech_words[((n - 1) \div Len(html_tags)) + 1]
            tag == html_tags[((n - 1) % Len(html_tags)) + 1]
        IN  Pass(<<WB, Lit(word), Mark>> \o OpenTag(tag), InsSpace)]

\* the suffixes of the negative look-ahead (?!Up|Sync|Render|Max|CAD|Live)
brand_continuations ==
  <<
    <<"U","p">>, <<"S","y","n","c">>, <<"R","e","n","d","e","r">>, <<"M","a","x">>,
    <<"C","A","D">>, <<"L","i","v","e">>
  >>

\* PHASE 5: ([a-z..]{2,})([A-Z..])(?!Up|Sync|Render|Max|CAD|Live) -> \1 \2
\* (the look-ahead stands after the upper case letter, as in the source)
SpacingPhase5 ==
    <<Pass(<<AtLeast(LowerCz, 2), Mark, One(UpperCz), NLA(brand_continuations)>>, InsSpace)>>

\* re.sub(r' {2,}', ' ', s)
CollapseSpaces == <<Pass(<<AtLeast({" "}, 2)>>, Const(<<" ">>))>>

\* brand_fixes, in dictionary order: <<wrong, correct>>
brand_fixes ==
  <<
    <<<<"S","k","e","t","c","h"," ","U","p">>, <<"S","k","e","t","c","h","U","p">>>>,
    <<<<"s","k","e","t","c","h"," ","u","p">>, <<"S","k","e","t","c","h","U","p">>>>,
    <<<<"L","i","v","e"," ","S","y","n","c">>, <<"L","i","v","e","S","y","n","c">>>>,
    <<<<"l","i","v","e"," ","s","y","n","c">>, <<"L","i","v","e","S","y","n","c">>>>,
    <<<<"D","5"," ","R","e","n","d","e","r">>, <<"D","5"," ","R","e","n","d","e","r">>>>,
    <<<<"3","d","s"," ","M","a","x">>, <<"3","d","s"," ","M","a","x">>>>,
    <<<<"A","r","c","h","i"," ","C","A","D">>, <<"A","r","c","h","i","C","A","D">>>>,
    <<<<"a","r","c","h","i"," ","c","a","d">>, <<"A","r","c","h","i","C","A","D">>>>
  >>

\* PHASE 7 left out: a split brand name is not put together again
SpacingPhase7_NoRestore == <<>>
\* PHASE 7: for wrong, correct in brand_fixes.items(): result.replace(wrong, correct)
SpacingPhase7 ==
    [k \in 1..Len(brand_fixes) |-> ReplacePass(brand_fixes[k][1], brand_fixes[k][2])]

fix_html_spacing_passes ==
    SpacingPhase1 \o SpacingPhase2 \o SpacingPhase3 \o SpacingPhase4
        \o SpacingPhase5 \o CollapseSpaces \o SpacingPhase7

fix_html_spacing(text) ==
    IF text = <<>> THEN text ELSE RunPasses(fix_html_spacing_passes, text)


-----------------------------------------------------------------------------
(* Bounded input texts: concatenations of at most n blocks.                *)

RECURSIVE Texts(_, _)
Texts(B, n) ==
    IF n = 0 THEN {<<>>}
    ELSE LET T == Texts(B, n - 1) IN T \cup {t \o b : t \in T, b \in B}

\* the last element of hist, or the input when the method has not run yet
Latest == IF hist = <<>> THEN inp ELSE hist[Len(hist)]

MaxApply == 2        \* applications of a pure method in one behaviour
MaxSpacingBlocks == 3 \* blocks in one input of fix_html_spacing

\* the protected two-part brand tokens
brand_tokens ==
  <<
    <<"S","k","e","t","c","h","U","p">>, <<"L","i","v","e","S","y","n","c">>,
    <<"A","r","c","h","i","C","A","D">>
  >>

SpacingBlocks ==
  {
    <<"S","k","e","t","c","h","U","p">>,
    <<"L","i","v","e","S","y","n","c">>,
    <<"A","r","c","h","i","C","A","D">>,
    <<"a","b">>,
    <<" ">>,
    <<"<","b",">">>,
    <<"s","k","e","t","c","h"," ","u","p">>,
    <<"X">>
  }

InitSpacing ==
    /\ fn = "fix_html_spacing"
    /\ inp \in Texts(SpacingBlocks, MaxSpacingBlocks)
    /\ hist = <<>>
    /\ html_replacements = NoAttr
    /\ NoCall

Apply_fix_html_spacing ==
    /\ fn = "fix_html_spacing"
    /\ Len(hist) < MaxApply
    /\ hist' = Append(hist, fix_html_spacing(Latest))
    /\ UNCHANGED <<fn, inp, html_replacements>>
    /\ UNCHANGED outerVars
    /\ UNCHANGED callVars

NextSpacing == Apply_fix_html_spacing

SpecSpacing == InitSpacing /\ [][NextSpacing]_vars

\* the text the k-th application was given
Given(k) == IF k = 1 THEN inp ELSE hist[k - 1]

\* C2: fix_html_spacing is idempotent: a second application changes nothing.
C2_SpacingIdempotent ==
    (fn = "fix_html_spacing" /\ Len(hist) >= 2) => hist[2] = hist[1]

\* the protected tokens with a space at the camel-case boundary
brand_splits ==
  <<
    <<"S","k","e","t","c","h"," ","U","p">>,
    <<"L","i","v","e"," ","S","y","n","c">>,
    <<"A","r","c","h","i"," ","C","A","D">>
  >>

\* C8: brand protection: every occurrence of SketchUp, LiveSync, ArchiCAD in the
\* text given to fix_html_spacing is in its result unsplit, and the result has no
\* protected token with a space left inside it.
C8_BrandProtection ==
    fn = "fix_html_spacing" =>
        \A k \in 1..Len(hist) : \A b \in 1..Len(brand_tokens) :
            /\ str_count(hist[k], brand_tokens[b]) >= str_count(Given(k), brand_tokens[b])
            /\ ~Contains(hist[k], brand_splits[b])

\* a brand token glued to the letters before it, which the camel-case pass split
C8_Witness ==
    /\ fn = "fix_html_spacing"
    /\ Len(hist) >= 1
    /\ \E b \in 1..Len(brand_tokens) : Contains(inp, <<"a", "b">> \o brand_tokens[b])
    /\ \E b \in 1..Len(brand_tokens) : Contains(RunPasses(SpacingPhase5, inp), brand_splits[b])

-----------------------------------------------------------------------------
(* apply_critical_terms: the term override (article_translator.py, lines   *)
(* 36-98 and 222-242).                                                     *)

\* self.critical_terms, in dictionary order: <<slovak_term, czech_term>>
critical_terms ==
  <<
    <<<<"S","k","e","t","c","h","U","p">>, <<"S","k","e","t","c","h","U","p">>>>,
    <<<<"s","k","i","c","i","p">>, <<"S","k","e","t","c","h","U","p">>>>,
    <<<<"s","k","i","c","i","p","u">>, <<"S","k","e","t","c","h","U","p">>>>,
    <<<<"s","k","i","c","i","p","u","p">>, <<"S","k","e","t","c","h","U","p">>>>,
    <<<<"D","5"," ","R","e","n","d","e","r">>, <<"D","5"," ","R","e","n","d","e","r">>>>,
    <<<<"v","y","k","r","e","s","l","o","v","a'","n","i'"," ","D","5">>, <<"D","5"," ","R","e","n","d","e","r">>>>,
    <<<<"v","y","k","r","e","s","l","e","n","i'"," ","D","5">>, <<"D","5"," ","R","e","n","d","e","r">>>>,
    <<<<"L","i","v","e","S","y","n","c">>, <<"L","i","v","e","S","y","n","c">>>>,
    <<<<"L","i","f","e","s","y","n","c">>, <<"L","i","v","e","S","y","n","c">>>>,
    <<<<"D","5"," ","C","o","n","v","e","r","t","e","r">>, <<"D","5"," ","C","o","n","v","e","r","t","e","r">>>>,
    <<<<"P","r^","e","v","o","d","n","i'","k"," ","D","5">>, <<"D","5"," ","C","o","n","v","e","r","t","e","r">>>>,
    <<<<"p","r^","e","v","o","d","n","i'","k","u"," ","D","5">>, <<"D","5"," ","C","o","n","v","e","r","t","e","r">>>>,
    <<<<"P","B","R"," ","m","a","t","e","r","i","a'","l","y">>, <<"P","B","R"," ","m","a","t","e","r","i","a'","l","y">>>>,
    <<<<"H","D","R","I"," ","m","a","p","y">>, <<"H","D","R","I"," ","m","a","p","y">>>>,
    <<<<"L","E","D"," ","p","a'","s","y">>, <<"L","E","D"," ","p","a'","s","y">>>>,
    <<<<"L","E","D"," ","p","r","o","u","z^","k","y">>, <<"L","E","D"," ","p","a'","s","y">>>>,
    <<<<"f","o","t","o","r","e","a","l","i","s","t","i","c","k","e'">>, <<"f","o","t","o","r","e","a","l","i","s","t","i","c","k","e'">>>>,
    <<<<"F","o","t","o","r","e","a","l","i","s","t","i","c","k","e'">>, <<"F","o","t","o","r","e","a","l","i","s","t","i","c","k","e'">>>>,
    <<<<"3","6","0","deg">>, <<"3","6","0","deg">>>>,
    <<<<"4","K">>, <<"4","K">>>>,
    <<<<"k","o","n","z","u","l","t","a","c","e">>, <<"k","o","n","z","u","l","t","a","c","e">>>>,
    <<<<"k","o","n","z","u","l","t","a","c","i">>, <<"k","o","n","z","u","l","t","a","c","i">>>>,
    <<<<"k","o","n","z","u","l","t","o","v","a","t">>, <<"k","o","n","z","u","l","t","o","v","a","t">>>>,
    <<<<"k","o","n","t","a","k","t","u","j","t","e">>, <<"k","o","n","t","a","k","t","u","j","t","e">>>>,
    <<<<"K","o","n","t","a","k","t","u","j">>, <<"K","o","n","t","a","k","t","u","j">>>>,
    <<<<"k","u","r","z">>, <<"k","u","r","z">>>>,
    <<<<"k","u","r","z","u">>, <<"k","u","r","z">>>>,
    <<<<"P","r^","i","h","l","a'","s","i","t"," ","s","e"," ","n","a"," ","k","u","r","z">>, <<"P","r^","i","h","l","a'","s","i","t"," ","s","e"," ","n","a"," ","k","u","r","z">>>>,
    <<<<"P","r^","i","h","l","a","s","t","e"," ","s","e"," ","d","o"," ","k","u","r","z","u">>, <<"P","r^","i","h","l","a'","s","i","t"," ","s","e"," ","n","a"," ","k","u","r","z">>>>,
    <<<<"z","a"," ","3"," ","m","i","n","u","t","y">>, <<"z","a"," ","3"," ","m","i","n","u","t","y">>>>,
    <<<<"z","a"," ","p","a'","r"," ","m","i","n","u","t">>, <<"z","a"," ","p","a'","r"," ","m","i","n","u","t">>>>,
    <<<<"v"," ","r","e","a'","l","n","e'","m"," ","c^","a","s","e">>, <<"v"," ","r","e","a'","l","n","e'","m"," ","c^","a","s","e">>>>,
    <<<<"b","e","z"," ","k","o","m","p","r","o","m","i","s","u*">>, <<"b","e","z"," ","k","o","m","p","r","o","m","i","s","u*">>>>,
    <<<<"p","r","o","f","e","s","i","o","n","a'","l","n","i'"," ","u'","c^","e","l","y">>, <<"p","r","o","f","e","s","i","o","n","a'","l","n","i'"," ","u'","c^","e","l","y">>>>,
    <<<<"m","o","d","e","l","o","v","a'","n","i'">>, <<"m","o","d","e","l","o","v","a'","n","i'">>>>,
    <<<<"v","i","z","u","a","l","i","z","a","c","e">>, <<"v","i","z","u","a","l","i","z","a","c","e">>>>,
    <<<<"k","o","m","b","i","n","a","c","e">>, <<"k","o","m","b","i","n","a","c","e">>>>,
    <<<<"n","a'","s","t","r","o","j">>, <<"n","a'","s","t","r","o","j">>>>,
    <<<<"n","a'","s","t","r","o","j","e">>, <<"n","a'","s","t","r","o","j","e">>>>,
    <<<<"p","r","o","g","r","a","m">>, <<"p","r","o","g","r","a","m">>>>,
    <<<<"p","r","o","g","r","a","m","y">>, <<"p","r","o","g","r","a","m","y">>>>,
    <<<<"p","r","o","j","e","k","t">>, <<"p","r","o","j","e","k","t">>>>,
    <<<<"p","r","o","j","e","k","t","y">>, <<"p","r","o","j","e","k","t","y">>>>,
    <<<<"m","a","t","e","r","i","a'","l">>, <<"m","a","t","e","r","i","a'","l">>>>,
    <<<<"m","a","t","e","r","i","a'","l","y">>, <<"m","a","t","e","r","i","a'","l","y">>>>,
    <<<<"t","e","x","t","u","r","y">>, <<"t","e","x","t","u","r","y">>>>,
    <<<<"o","s","v","e^","t","l","e","n","i'">>, <<"o","s","v","e^","t","l","e","n","i'">>>>,
    <<<<"g","e","o","m","e","t","r","i","e">>, <<"g","e","o","m","e","t","r","i","e">>>>,
    <<<<"k","o","m","p","o","n","e","n","t","y">>, <<"k","o","m","p","o","n","e","n","t","y">>>>,
    <<<<"o","b","j","e","k","t","y">>, <<"o","b","j","e","k","t","y">>>>,
    <<<<"k","a","m","e","r","y">>, <<"k","a","m","e","r","y">>>>,
    <<<<"a","n","i","m","a","c","e">>, <<"a","n","i","m","a","c","e">>>>,
    <<<<"e","x","p","o","r","t">>, <<"e","x","p","o","r","t">>>>,
    <<<<"r","o","z","l","i","s^","e","n","i'">>, <<"r","o","z","l","i","s^","e","n","i'">>>>
  >>

\* ['SketchUp', 'D5 Render', 'LiveSync', 'D5 Converter']
exact_names ==
  <<
    <<"S","k","e","t","c","h","U","p">>, <<"D","5"," ","R","e","n","d","e","r">>,
    <<"L","i","v","e","S","y","n","c">>, <<"D","5"," ","C","o","n","v","e","r","t","e","r">>
  >>

\* position of entry k of table t in sorted(t, key=lambda x: len(x[0]), reverse=True);
\* the sort is stable, entries of equal length keep their order
SortRank(t, k) ==
    1 + Cardinality({j \in 1..Len(t) :
                        \/ Len(t[j][1]) > Len(t[k][1])
                        \/ (Len(t[j][1]) = Len(t[k][1]) /\ j < k)})
SortedByLengthDesc(t) ==
    [r \in 1..Len(t) |-> t[CHOOSE k \in 1..Len(t) : SortRank(t, k) = r]]

\* the table taken in dictionary order, without the sort
sorted_terms_Unsorted == critical_terms
sorted_terms == SortedByLengthDesc(critical_terms)

\* any(char.isupper() for char in slovak_term) or slovak_term in [...]
IsExactTerm(term) ==
    \/ \E j \in 1..Len(term) : IsUpperChar(term[j])
    \/ \E j \in 1..Len(exact_names) : exact_names[j] = term

\* a variant whose common terms are matched in the letter case of the table only
TermPass_CaseExact(entry) ==
    IF IsExactTerm(entry[1]) THEN ReplacePass(entry[1], entry[2])
    ELSE Pass(<<WB, Lit(entry[1]), WB>>, Const(entry[2]))
\* one loop iteration: result.replace(slovak_term, czech_term), or
\* re.sub(r'\b' + re.escape(slovak_term) + r'\b', czech_term, result, flags=re.IGNORECASE)
TermPass(entry) ==
    IF IsExactTerm(entry[1]) THEN ReplacePass(entry[1], entry[2])
    ELSE PassIC(<<WB, Lit(entry[1]), WB>>, Const(entry[2]))

apply_critical_terms_passes == [k \in 1..Len(sorted_terms) |-> TermPass(sorted_terms[k])]

apply_critical_terms(text) ==
    IF text = <<>> THEN text ELSE RunPasses(apply_critical_terms_passes, text)

MaxTermBlocks == 3   \* blocks in one input of apply_critical_terms

TermBlocks ==
  {
    <<"P","r^","i","h","l","a","s","t","e"," ","s","e"," ","d","o"," ","k","u","r","z","u">>,
    <<"k","u","r","z","u">>,
    <<"P","r^","e","v","o","d","n","i'","k"," ">>,
    <<"P","r^","e","v","o","d","n","i'","k"," ","D","5">>,
    <<"P","B","R"," ","m","a","t","e","r","i","a'","l","y">>,
    <<" ">>,
    <<"x">>,
    <<"S","k","i","c","i","p">>
  }

InitTerms ==
    /\ fn = "apply_critical_terms"
    /\ inp \in Texts(TermBlocks, MaxTermBlocks)
    /\ hist = <<>>
    /\ html_replacements = NoAttr
    /\ NoCall

Apply_apply_critical_terms ==
    /\ fn = "apply_critical_terms"
    /\ Len(hist) < MaxApply
    /\ hist' = Append(hist, apply_critical_terms(Latest))
    /\ UNCHANGED <<fn, inp, html_replacements>>
    /\ UNCHANGED outerVars
    /\ UNCHANGED callVars

NextTerms == Apply_apply_critical_terms

SpecTerms == InitTerms /\ [][NextTerms]_vars

\* C5: apply_critical_terms is idempotent: a second application changes nothing.
C5_OverrideIdempotent ==
    (fn = "apply_critical_terms" /\ Len(hist) >= 2) => hist[2] = hist[1]

\* entry k is a phrase of several words one of whose words is a shorter source term
IsCompoundEntry(k) ==
    /\ Contains(critical_terms[k][1], <<" ">>)
    /\ \E j \in 1..Len(critical_terms) :
          /\ Len(critical_terms[j][1]) < Len(critical_terms[k][1])
          /\ NextMatch(<<WB, Lit(critical_terms[j][1]), WB>>, critical_terms[k][1], 1, FALSE) # 0

CompoundEntries == {k \in 1..Len(critical_terms) : IsCompoundEntry(k)}

\* the passes of apply_critical_terms go through the table longest source term first
LongestFirst ==
    \A r \in 1..(Len(sorted_terms) - 1) :
        Len(sorted_terms[r][1]) >= Len(sorted_terms[r + 1][1])

\* C6: the entries are applied in order of non-increasing source length, and every
\* occurrence of a compound source phrase in the text is in the result in the
\* canonical form of the whole phrase.
C6_OverridePrecedence ==
    /\ LongestFirst
    /\ fn = "apply_critical_terms" =>
          \A n \in 1..Len(hist) : \A k \in CompoundEntries :
              str_count(hist[n], critical_terms[k][2])
                  >= str_count(Given(n), critical_terms[k][1])

\* a compound phrase that the table rewrites, next to other text, after the override
C6_Witness ==
    /\ fn = "apply_critical_terms"
    /\ Len(hist) >= 1
    /\ \E k \in CompoundEntries :
          /\ critical_terms[k][1] # critical_terms[k][2]
          /\ Len(inp) > Len(critical_terms[k][1])
          /\ Contains(inp, critical_terms[k][1])
          /\ Contains(hist[1], critical_terms[k][2])
          /\ ~Contains(hist[1], critical_terms[k][1])

-----------------------------------------------------------------------------
(* fix_capitalization and capitalize_first_letter (article_translator.py,  *)
(* lines 368-406 and 682-692).                                             *)

\* re.split(pat, s) for a pattern that is one capturing group: the texts between
\* the matches and the matches themselves, in order
RECURSIVE SplitFrom(_, _, _)
SplitFrom(pat, s, i) ==
    LET j == NextMatch(pat, s, i, FALSE) IN
    IF j = 0 THEN <<SubSeq(s, i, Len(s))>>
    ELSE LET m == MatchFrom(pat, 1, s, j, j, FALSE) IN
         <<SubSeq(s, i, j - 1), SubSeq(s, j, m[1] - 1)>> \o SplitFrom(pat, s, m[1])
re_split(pat, s) == SplitFrom(pat, s, 1)

\* ''.join(parts)
RECURSIVE JoinFrom(_, _)
JoinFrom(parts, k) ==
    IF k > Len(parts) THEN <<>> ELSE parts[k] \o JoinFrom(parts, k + 1)
Join(parts) == JoinFrom(parts, 1)

\* ([.!?]+\s*)
SentenceSep == <<Plus({".", "!", "?"}), Star(White)>>

\* s.strip() is not empty
HasVisible(s) == \E j \in 1..Len(s) : s[j] \notin White

\* re.match(r'^[.!?\s]+$', s)
IsPunctuationOnly(s) ==
    MatchFrom(<<Bol, Plus({".", "!", "?"} \cup White), Eol>>, 1, s, 1, 1, FALSE) # NoMatch

\* a variant that upper-cases the first lower case letter instead of the first letter
capitalize_first_letter_FirstLower(text) ==
    LET low == {j \in 1..Len(text) : text[j] \in LowerCz} IN
    IF low = {} THEN text
    ELSE [j \in 1..Len(text) |-> IF j = MinOf(low) THEN ToUpper(text[j]) ELSE text[j]]

\* the first char with char.isalpha() is replaced by char.upper()
capitalize_first_letter(text) ==
    LET alpha == {j \in 1..Len(text) : text[j] \in Alpha} IN
    IF alpha = {} THEN text
    ELSE [j \in 1..Len(text) |-> IF j = MinOf(alpha) THEN ToUpper(text[j]) ELSE text[j]]

\* ([.!?]\s+)([a-z..]) -> group 2 in upper case;  \bi\b -> I
SentencePasses ==
    << Pass(<<One({".", "!", "?"}), Plus(White), Mark, One(LowerCz)>>, UpperG2),
       Pass(<<WB, Lit(<<"i">>), WB>>, Const(<<"I">>)) >>

\* the body of the loop over the parts of the split
FixSentence(sentence) ==
    IF HasVisible(sentence) /\ ~IsPunctuationOnly(sentence)
    THEN RunPasses(SentencePasses, capitalize_first_letter(sentence))
    ELSE sentence

\* (</[^>]+>\s*)([a-z..]) and (\n\s*)([a-z..]) -> group 2 in upper case
AfterJoinPasses ==
    << Pass(<<Lit(<<"<", "/">>), NotPlus({">"}), Lit(<<">">>), Star(White), Mark, One(LowerCz)>>,
            UpperG2),
       Pass(<<Lit(<<"\n">>), Star(White), Mark, One(LowerCz)>>, UpperG2) >>

fix_capitalization(text) ==
    IF text = <<>> THEN text
    ELSE LET sentences == re_split(SentenceSep, text)
             fixed_sentences == [k \in 1..Len(sentences) |-> FixSentence(sentences[k])]
         IN  RunPasses(AfterJoinPasses, Join(fixed_sentences))

MaxCapBlocks == 4    \* blocks in one input of fix_capitalization

CapBlocks ==
  {
    <<"a">>,
    <<"i">>,
    <<"B">>,
    <<" ">>,
    <<".">>,
    <<"\n">>,
    <<"<","/","b",">">>,
    <<"<","i",">">>,
    <<"!">>
  }

InitCap ==
    /\ fn = "fix_capitalization"
    /\ inp \in Texts(CapBlocks, MaxCapBlocks)
    /\ hist = <<>>
    /\ html_replacements = NoAttr
    /\ NoCall

Apply_fix_capitalization ==
    /\ fn = "fix_capitalization"
    /\ Len(hist) < MaxApply
    /\ hist' = Append(hist, fix_capitalization(Latest))
    /\ UNCHANGED <<fn, inp, html_replacements>>
    /\ UNCHANGED outerVars
    /\ UNCHANGED callVars

NextCap == Apply_fix_capitalization

SpecCap == InitCap /\ [][NextCap]_vars

\* C7: fix_capitalization is idempotent: a second application changes nothing.
C7_CapitalizeIdempotent ==
    (fn = "fix_capitalization" /\ Len(hist) >= 2) => hist[2] = hist[1]

\* a text with two sentences and a closing tag that the first application changed
C7_Witness ==
    /\ fn = "fix_capitalization"
    /\ Len(hist) = 2
    /\ hist[1] # inp
    /\ Len(re_split(SentenceSep, inp)) >= 3
    /\ Contains(inp, <<"<", "/", "b", ">", "a">>)

-----------------------------------------------------------------------------
(* preprocess_for_translation and restore_html_tags: the inline tags are    *)
(* replaced by placeholders before the text goes to the translation engine  *)
(* and put back afterwards (article_translator.py, lines 100-152).          *)

DigitSeq == <<"0","1","2","3","4","5","6","7","8","9">>

\* str(n) for a natural number n
RECURSIVE Decimal(_)
Decimal(n) ==
    IF n < 10 THEN <<DigitSeq[n + 1]>>
    ELSE Decimal(n \div 10) \o <<DigitSeq[(n % 10) + 1]>>

\* f'HTMLTAG{counter}ENDTAG'
Placeholder(counter) == <<"H","T","M","L","T","A","G">> \o Decimal(counter) \o <<"E","N","D","T","A","G">>

\* html_pattern = r'</?(?:strong|em|b|i|u|span)[^>]*>'
html_pattern ==
    <<Lit(<<"<">>), Opt({"/"}), Alt(html_tags), NotStar({">"}), Lit(<<">">>)>>

\* the matches of html_pattern in s from position i on, left to right
RECURSIVE TagsFrom(_, _)
TagsFrom(s, i) ==
    LET j == NextMatch(html_pattern, s, i, FALSE) IN
    IF j = 0 THEN <<>>
    ELSE LET m == MatchFrom(html_pattern, 1, s, j, j, FALSE) IN
         <<SubSeq(s, j, m[1] - 1)>> \o TagsFrom(s, m[1])
InlineTags(s) == TagsFrom(s, 1)

\* re.sub(html_pattern, replace_tag, result): every match becomes
\* ' ' + placeholder + ' ', the placeholders numbered by counter
RECURSIVE replace_tag(_, _, _)
replace_tag(s, i, counter) ==
    LET j == NextMatch(html_pattern, s, i, FALSE) IN
    IF j = 0 THEN SubSeq(s, i, Len(s))
    ELSE LET m == MatchFrom(html_pattern, 1, s, j, j, FALSE) IN
         SubSeq(s, i, j - 1) \o <<" ">> \o Placeholder(counter) \o <<" ">>
             \o replace_tag(s, m[1], counter + 1)

\* preprocess_for_translation(text) with self.html_replacements = old before the
\* call: the returned text and self.html_replacements after the call.  The k-th
\* tag of the map is the one behind Placeholder(k - 1).
\* a variant without the reset: the entries of the earlier text behind the
\* placeholders that the new text does not number stay in the map
StoredTags_Kept(old, tags) == tags \o SubSeq(old.tags, Len(tags) + 1, Len(old.tags))
\* self.html_replacements = {} and then one entry for every tag of the text
StoredTags(old, tags) == tags

\* a variant that leaves the tags in the text
ShieldedText_Raw(text) == RunPasses(CollapseSpaces, text)
\* result = re.sub(html_pattern, replace_tag, result); re.sub(r' {2,}', ' ', result)
ShieldedText(text) == RunPasses(CollapseSpaces, replace_tag(text, 1, 0))

preprocess_for_translation(text, old) ==
    IF text = <<>> THEN [text |-> text, html_replacements |-> old]
    ELSE [text |-> ShieldedText(text),
          html_replacements |-> [has |-> TRUE, tags |-> StoredTags(old, InlineTags(text))]]

\* [a-zA-Z0-9À-ſ.,;:!?\-]
RestoreClass ==
    AsciiLower \cup AsciiUpper \cup Digits \cup Latin1Ext \cup SentPunct \cup {"-"}

\* for placeholder, original_tag in self.html_replacements.items():
\*     result = result.replace(placeholder, original_tag)
RestorePlaceholders(tags) ==
    [k \in 1..Len(tags) |-> ReplacePass(Placeholder(k - 1), tags[k])]

\* the non-strong tag names of the two last patterns: (?:em|b|i|u|span)
other_tags == SubSeq(html_tags, 2, Len(html_tags))

\* the four spacing patterns of restore_html_tags
RestoreSpacing ==
  <<
    Pass(<<One(RestoreClass), Mark>> \o OpenTag(html_tags[1]), InsSpace),
    Pass(CloseTag(html_tags[1]) \o <<Mark, One(RestoreClass)>>, InsSpace),
    Pass(<<One(RestoreClass), Mark, Lit(<<"<">>), Alt(other_tags), NotStar({">"}),
           Lit(<<">">>)>>, InsSpace),
    Pass(<<Lit(<<"<", "/">>), Alt(other_tags), Lit(<<">">>), Mark, One(RestoreClass)>>,
         InsSpace)
  >>

\* restore_html_tags(text) with self.html_replacements = repl
restore_html_tags(text, repl) ==
    IF text = <<>> \/ ~repl.has THEN text
    ELSE RunPasses(RestorePlaceholders(repl.tags) \o RestoreSpacing \o CollapseSpaces, text)

MaxShieldBlocks == 3  \* blocks in one input of preprocess_for_translation

ShieldBlocks ==
  {
    <<"<","b",">">>,
    <<"<","/","b",">">>,
    <<"<","s","p","a","n"," "," ","x",">">>,
    <<"<","e","m",">">>,
    <<"a">>,
    <<" ">>,
    <<".">>,
    <<"(">>
  }

InitShield ==
    /\ fn = "preprocess_for_translation"
    /\ inp \in Texts(ShieldBlocks, MaxShieldBlocks)
    /\ hist = <<>>
    /\ html_replacements = NoAttr
    /\ NoCall

Apply_preprocess_for_translation ==
    /\ fn = "preprocess_for_translation"
    /\ hist = <<>>
    /\ LET r == preprocess_for_translation(inp, html_replacements) IN
         /\ hist' = <<r.text>>
         /\ html_replacements' = r.html_replacements
    /\ UNCHANGED <<fn, inp>>
    /\ UNCHANGED outerVars
    /\ UNCHANGED callVars

Apply_restore_html_tags ==
    /\ fn = "preprocess_for_translation"
    /\ Len(hist) = 1
    /\ hist' = Append(hist, restore_html_tags(hist[1], html_replacements))
    /\ UNCHANGED <<fn, inp, html_replacements>>
    /\ UNCHANGED outerVars
    /\ UNCHANGED callVars

NextShield == Apply_preprocess_for_translation \/ Apply_restore_html_tags

SpecShield == InitShield /\ [][NextShield]_vars

IsVisible(c) == c \notin White
\* s without its whitespace
Visible(s) == SelectSeq(s, IsVisible)

\* every < of s opens an inline tag and every > of s closes one
WellFormedTags(s) ==
    /\ str_count(s, <<"<">>) = Len(InlineTags(s))
    /\ str_count(s, <<">">>) = Len(InlineTags(s))

\* C4: placeholder round trip: for every text with well-formed inline tags, restoring
\* the shielded text gives exactly the tags of the text, each verbatim and in the
\* original order, and a text that differs from the original only in whitespace.
C4_PlaceholderRoundTrip ==
    (fn = "preprocess_for_translation" /\ Len(hist) = 2 /\ WellFormedTags(inp)) =>
        /\ InlineTags(hist[2]) = InlineTags(inp)
        /\ Visible(hist[2]) = Visible(inp)

-----------------------------------------------------------------------------
(* post_translation_spacing_fix (article_translator.py, lines 468-521).    *)

czech_prepositions ==
  <<
    <<"n","a">>, <<"p","r","o">>, <<"d","o">>, <<"z","a">>, <<"o","d">>, <<"p","o">>,
    <<"p","r^","i">>, <<"p","r^","e","d">>, <<"n","a","d">>, <<"p","o","d">>,
    <<"m","e","z","i">>, <<"b","e","z">>, <<"p","o","d","l","e">>, <<"b","e^","h","e","m">>,
    <<"k","o","l","e","m">>, <<"o","k","o","l","o">>, <<"v","e","d","l","e">>,
    <<"m","i","m","o">>, <<"s","k","r","z">>, <<"p","r^","e","s">>, <<"v">>, <<"s">>, <<"k">>,
    <<"o">>, <<"u">>, <<"z">>, <<"i">>, <<"a">>, <<"a","l","e">>, <<"n","e","b","o">>,
    <<"z^","e">>, <<"a","b","y">>, <<"o","b","s","a","h","u","j","e">>,
    <<"n","a","b","i'","z","i'">>, <<"u","m","o","z^","n","i'">>,
    <<"m","u*","z^","e","t","e">>, <<"b","u","d","e","t","e">>, <<"b","u","d","o","u">>,
    <<"m","a","j","i'">>, <<"j","s","o","u">>, <<"t","e'","t","o">>,
    <<"t","o","h","o","t","o">>, <<"t","e'","t","o">>, <<"t","o","m","t","o">>,
    <<"t","y","t","o">>, <<"t","a","k","e'">>, <<"v","i'","c","e">>,
    <<"v","s^","e","c","h","n","y">>, <<"p","r","a'","c","e">>,
    <<"n","a'","s","t","r","o","j">>, <<"p","r","o","g","r","a","m">>,
    <<"s","o","f","t","w","a","r","e">>, <<"f","u","n","k","c","e">>,
    <<"m","o","z^","n","o","s","t">>
  >>

\* [a-zA-Z0-9À-ſ] and [a-zA-Z À-ſ]
LatinAlnum == AsciiLower \cup AsciiUpper \cup Digits \cup Latin1Ext
LatinAlpha == AsciiLower \cup AsciiUpper \cup Latin1Ext

\* PHASE 4, for word in czech_prepositions: 'word<strong>' -> 'word <strong>', then
\* 'word<em>' -> 'word <em>'
PostPhase4 ==
    [n \in 1..(2 * Len(czech_prepositions)) |->
        LET word == czech_prepositions[((n - 1) \div 2) + 1]
            tag == IF n % 2 = 1 THEN <<"<","s","t","r","o","n","g",">">> ELSE <<"<","e","m",">">>
        IN  ReplacePass(word \o tag, word \o <<" ">> \o tag)]

\* PHASE 7: the last four patterns, for strong and for em
PostPhase7 ==
  <<
    Pass(<<One(LatinAlnum), Mark>> \o OpenTag(html_tags[1]), InsSpace),
    Pass(CloseTag(html_tags[1]) \o <<Mark, One(LatinAlpha)>>, InsSpace),
    Pass(<<One(LatinAlnum), Mark>> \o OpenTag(html_tags[2]), InsSpace),
    Pass(CloseTag(html_tags[2]) \o <<Mark, One(LatinAlpha)>>, InsSpace)
  >>

post_translation_spacing_fix_passes ==
    <<Pass(<<One(WordChars), Mark>> \o AnyOpenTag, InsSpace),                \* PHASE 1
      Pass(AnyCloseTag \o <<Mark, One(WordChars)>>, InsSpace),               \* PHASE 2
      Pass(<<One(SentPunct), Mark>> \o AnyOpenTag, InsSpace)>>               \* PHASE 3
    \o PostPhase4
    \o <<Pass(<<One({".", "!", "?"}), Mark>> \o AnyOpenTag, InsSpace),       \* PHASE 5
         Pass(AnyCloseTag \o <<Mark, One(AsciiUpper \cup Latin1Ext)>>, InsSpace)>>  \* PHASE 6
    \o PostPhase7
    \o CollapseSpaces                                                        \* PHASE 8

post_translation_spacing_fix(text) ==
    IF text = <<>> THEN text ELSE RunPasses(post_translation_spacing_fix_passes, text)

-----------------------------------------------------------------------------
(* force_strong_tag_spacing (article_translator.py, lines 523-680).        *)

\* problematic_patterns: <<original, fixed>>
problematic_patterns ==
  <<
    <<<<"n","a","<","s","t","r","o","n","g",">">>, <<"n","a"," ","<","s","t","r","o","n","g",">">>>>,
    <<<<"p","r","o","<","s","t","r","o","n","g",">">>, <<"p","r","o"," ","<","s","t","r","o","n","g",">">>>>,
    <<<<"d","o","<","s","t","r","o","n","g",">">>, <<"d","o"," ","<","s","t","r","o","n","g",">">>>>,
    <<<<"z","a","<","s","t","r","o","n","g",">">>, <<"z","a"," ","<","s","t","r","o","n","g",">">>>>,
    <<<<"o","d","<","s","t","r","o","n","g",">">>, <<"o","d"," ","<","s","t","r","o","n","g",">">>>>,
    <<<<"p","o","<","s","t","r","o","n","g",">">>, <<"p","o"," ","<","s","t","r","o","n","g",">">>>>,
    <<<<"p","r^","i","<","s","t","r","o","n","g",">">>, <<"p","r^","i"," ","<","s","t","r","o","n","g",">">>>>,
    <<<<"p","r^","e","d","<","s","t","r","o","n","g",">">>, <<"p","r^","e","d"," ","<","s","t","r","o","n","g",">">>>>,
    <<<<"n","a","d","<","s","t","r","o","n","g",">">>, <<"n","a","d"," ","<","s","t","r","o","n","g",">">>>>,
    <<<<"p","o","d","<","s","t","r","o","n","g",">">>, <<"p","o","d"," ","<","s","t","r","o","n","g",">">>>>,
    <<<<"m","e","z","i","<","s","t","r","o","n","g",">">>, <<"m","e","z","i"," ","<","s","t","r","o","n","g",">">>>>,
    <<<<"b","e","z","<","s","t","r","o","n","g",">">>, <<"b","e","z"," ","<","s","t","r","o","n","g",">">>>>,
    <<<<"p","o","d","l","e","<","s","t","r","o","n","g",">">>, <<"p","o","d","l","e"," ","<","s","t","r","o","n","g",">">>>>,
    <<<<"b","e^","h","e","m","<","s","t","r","o","n","g",">">>, <<"b","e^","h","e","m"," ","<","s","t","r","o","n","g",">">>>>,
    <<<<"k","o","l","e","m","<","s","t","r","o","n","g",">">>, <<"k","o","l","e","m"," ","<","s","t","r","o","n","g",">">>>>,
    <<<<"n","a'","s","t","r","o","j","<","s","t","r","o","n","g",">">>, <<"n","a'","s","t","r","o","j"," ","<","s","t","r","o","n","g",">">>>>,
    <<<<"p","r","o","g","r","a","m","<","s","t","r","o","n","g",">">>, <<"p","r","o","g","r","a","m"," ","<","s","t","r","o","n","g",">">>>>,
    <<<<"s","o","f","t","w","a","r","e","<","s","t","r","o","n","g",">">>, <<"s","o","f","t","w","a","r","e"," ","<","s","t","r","o","n","g",">">>>>,
    <<<<"f","u","n","k","c","e","<","s","t","r","o","n","g",">">>, <<"f","u","n","k","c","e"," ","<","s","t","r","o","n","g",">">>>>,
    <<<<"m","o","z^","n","o","s","t","<","s","t","r","o","n","g",">">>, <<"m","o","z^","n","o","s","t"," ","<","s","t","r","o","n","g",">">>>>,
    <<<<"z","p","u*","s","o","b","<","s","t","r","o","n","g",">">>, <<"z","p","u*","s","o","b"," ","<","s","t","r","o","n","g",">">>>>,
    <<<<"m","e","t","o","d","a","<","s","t","r","o","n","g",">">>, <<"m","e","t","o","d","a"," ","<","s","t","r","o","n","g",">">>>>,
    <<<<"a","<","s","t","r","o","n","g",">">>, <<"a"," ","<","s","t","r","o","n","g",">">>>>,
    <<<<"e","<","s","t","r","o","n","g",">">>, <<"e"," ","<","s","t","r","o","n","g",">">>>>,
    <<<<"i","<","s","t","r","o","n","g",">">>, <<"i"," ","<","s","t","r","o","n","g",">">>>>,
    <<<<"o","<","s","t","r","o","n","g",">">>, <<"o"," ","<","s","t","r","o","n","g",">">>>>,
    <<<<"u","<","s","t","r","o","n","g",">">>, <<"u"," ","<","s","t","r","o","n","g",">">>>>,
    <<<<"y","<","s","t","r","o","n","g",">">>, <<"y"," ","<","s","t","r","o","n","g",">">>>>,
    <<<<"v","<","s","t","r","o","n","g",">">>, <<"v"," ","<","s","t","r","o","n","g",">">>>>,
    <<<<"s","<","s","t","r","o","n","g",">">>, <<"s"," ","<","s","t","r","o","n","g",">">>>>,
    <<<<"k","<","s","t","r","o","n","g",">">>, <<"k"," ","<","s","t","r","o","n","g",">">>>>,
    <<<<"z","<","s","t","r","o","n","g",">">>, <<"z"," ","<","s","t","r","o","n","g",">">>>>,
    <<<<"e^","<","s","t","r","o","n","g",">">>, <<"e^"," ","<","s","t","r","o","n","g",">">>>>,
    <<<<"a'","<","s","t","r","o","n","g",">">>, <<"a'"," ","<","s","t","r","o","n","g",">">>>>,
    <<<<"e'","<","s","t","r","o","n","g",">">>, <<"e'"," ","<","s","t","r","o","n","g",">">>>>,
    <<<<"i'","<","s","t","r","o","n","g",">">>, <<"i'"," ","<","s","t","r","o","n","g",">">>>>,
    <<<<"o'","<","s","t","r","o","n","g",">">>, <<"o'"," ","<","s","t","r","o","n","g",">">>>>,
    <<<<"u'","<","s","t","r","o","n","g",">">>, <<"u'"," ","<","s","t","r","o","n","g",">">>>>,
    <<<<"u*","<","s","t","r","o","n","g",">">>, <<"u*"," ","<","s","t","r","o","n","g",">">>>>,
    <<<<"y'","<","s","t","r","o","n","g",">">>, <<"y'"," ","<","s","t","r","o","n","g",">">>>>,
    <<<<"c^","<","s","t","r","o","n","g",">">>, <<"c^"," ","<","s","t","r","o","n","g",">">>>>,
    <<<<"d^","<","s","t","r","o","n","g",">">>, <<"d^"," ","<","s","t","r","o","n","g",">">>>>,
    <<<<"n^","<","s","t","r","o","n","g",">">>, <<"n^"," ","<","s","t","r","o","n","g",">">>>>,
    <<<<"r^","<","s","t","r","o","n","g",">">>, <<"r^"," ","<","s","t","r","o","n","g",">">>>>,
    <<<<"s^","<","s","t","r","o","n","g",">">>, <<"s^"," ","<","s","t","r","o","n","g",">">>>>,
    <<<<"t^","<","s","t","r","o","n","g",">">>, <<"t^"," ","<","s","t","r","o","n","g",">">>>>,
    <<<<"z^","<","s","t","r","o","n","g",">">>, <<"z^"," ","<","s","t","r","o","n","g",">">>>>,
    <<<<"0","<","s","t","r","o","n","g",">">>, <<"0"," ","<","s","t","r","o","n","g",">">>>>,
    <<<<"1","<","s","t","r","o","n","g",">">>, <<"1"," ","<","s","t","r","o","n","g",">">>>>,
    <<<<"2","<","s","t","r","o","n","g",">">>, <<"2"," ","<","s","t","r","o","n","g",">">>>>,
    <<<<"3","<","s","t","r","o","n","g",">">>, <<"3"," ","<","s","t","r","o","n","g",">">>>>,
    <<<<"4","<","s","t","r","o","n","g",">">>, <<"4"," ","<","s","t","r","o","n","g",">">>>>,
    <<<<"5","<","s","t","r","o","n","g",">">>, <<"5"," ","<","s","t","r","o","n","g",">">>>>,
    <<<<"6","<","s","t","r","o","n","g",">">>, <<"6"," ","<","s","t","r","o","n","g",">">>>>,
    <<<<"7","<","s","t","r","o","n","g",">">>, <<"7"," ","<","s","t","r","o","n","g",">">>>>,
    <<<<"8","<","s","t","r","o","n","g",">">>, <<"8"," ","<","s","t","r","o","n","g",">">>>>,
    <<<<"9","<","s","t","r","o","n","g",">">>, <<"9"," ","<","s","t","r","o","n","g",">">>>>,
    <<<<".","<","s","t","r","o","n","g",">">>, <<"."," ","<","s","t","r","o","n","g",">">>>>,
    <<<<",","<","s","t","r","o","n","g",">">>, <<","," ","<","s","t","r","o","n","g",">">>>>,
    <<<<";","<","s","t","r","o","n","g",">">>, <<";"," ","<","s","t","r","o","n","g",">">>>>,
    <<<<":","<","s","t","r","o","n","g",">">>, <<":"," ","<","s","t","r","o","n","g",">">>>>,
    <<<<"!","<","s","t","r","o","n","g",">">>, <<"!"," ","<","s","t","r","o","n","g",">">>>>,
    <<<<"?","<","s","t","r","o","n","g",">">>, <<"?"," ","<","s","t","r","o","n","g",">">>>>
  >>

\* closing_patterns: <<original, fixed>>
closing_patterns ==
  <<
    <<<<"<","/","s","t","r","o","n","g",">","V">>, <<"<","/","s","t","r","o","n","g",">"," ","V">>>>,
    <<<<"<","/","s","t","r","o","n","g",">","T">>, <<"<","/","s","t","r","o","n","g",">"," ","T">>>>,
    <<<<"<","/","s","t","r","o","n","g",">","A">>, <<"<","/","s","t","r","o","n","g",">"," ","A">>>>,
    <<<<"<","/","s","t","r","o","n","g",">","I">>, <<"<","/","s","t","r","o","n","g",">"," ","I">>>>,
    <<<<"<","/","s","t","r","o","n","g",">","O">>, <<"<","/","s","t","r","o","n","g",">"," ","O">>>>,
    <<<<"<","/","s","t","r","o","n","g",">","U">>, <<"<","/","s","t","r","o","n","g",">"," ","U">>>>,
    <<<<"<","/","s","t","r","o","n","g",">","E">>, <<"<","/","s","t","r","o","n","g",">"," ","E">>>>,
    <<<<"<","/","s","t","r","o","n","g",">","N">>, <<"<","/","s","t","r","o","n","g",">"," ","N">>>>,
    <<<<"<","/","s","t","r","o","n","g",">","S">>, <<"<","/","s","t","r","o","n","g",">"," ","S">>>>,
    <<<<"<","/","s","t","r","o","n","g",">","K">>, <<"<","/","s","t","r","o","n","g",">"," ","K">>>>,
    <<<<"<","/","s","t","r","o","n","g",">","P">>, <<"<","/","s","t","r","o","n","g",">"," ","P">>>>,
    <<<<"<","/","s","t","r","o","n","g",">","R">>, <<"<","/","s","t","r","o","n","g",">"," ","R">>>>,
    <<<<"<","/","s","t","r","o","n","g",">","L">>, <<"<","/","s","t","r","o","n","g",">"," ","L">>>>,
    <<<<"<","/","s","t","r","o","n","g",">","M">>, <<"<","/","s","t","r","o","n","g",">"," ","M">>>>,
    <<<<"<","/","s","t","r","o","n","g",">","D">>, <<"<","/","s","t","r","o","n","g",">"," ","D">>>>,
    <<<<"<","/","s","t","r","o","n","g",">","B">>, <<"<","/","s","t","r","o","n","g",">"," ","B">>>>,
    <<<<"<","/","s","t","r","o","n","g",">","C">>, <<"<","/","s","t","r","o","n","g",">"," ","C">>>>,
    <<<<"<","/","s","t","r","o","n","g",">","F">>, <<"<","/","s","t","r","o","n","g",">"," ","F">>>>,
    <<<<"<","/","s","t","r","o","n","g",">","G">>, <<"<","/","s","t","r","o","n","g",">"," ","G">>>>,
    <<<<"<","/","s","t","r","o","n","g",">","H">>, <<"<","/","s","t","r","o","n","g",">"," ","H">>>>,
    <<<<"<","/","s","t","r","o","n","g",">","J">>, <<"<","/","s","t","r","o","n","g",">"," ","J">>>>,
    <<<<"<","/","s","t","r","o","n","g",">","Q">>, <<"<","/","s","t","r","o","n","g",">"," ","Q">>>>,
    <<<<"<","/","s","t","r","o","n","g",">","W">>, <<"<","/","s","t","r","o","n","g",">"," ","W">>>>,
    <<<<"<","/","s","t","r","o","n","g",">","X">>, <<"<","/","s","t","r","o","n","g",">"," ","X">>>>,
    <<<<"<","/","s","t","r","o","n","g",">","Y">>, <<"<","/","s","t","r","o","n","g",">"," ","Y">>>>,
    <<<<"<","/","s","t","r","o","n","g",">","Z">>, <<"<","/","s","t","r","o","n","g",">"," ","Z">>>>,
    <<<<"<","/","s","t","r","o","n","g",">","A'">>, <<"<","/","s","t","r","o","n","g",">"," ","A'">>>>,
    <<<<"<","/","s","t","r","o","n","g",">","E'">>, <<"<","/","s","t","r","o","n","g",">"," ","E'">>>>,
    <<<<"<","/","s","t","r","o","n","g",">","I'">>, <<"<","/","s","t","r","o","n","g",">"," ","I'">>>>,
    <<<<"<","/","s","t","r","o","n","g",">","O'">>, <<"<","/","s","t","r","o","n","g",">"," ","O'">>>>,
    <<<<"<","/","s","t","r","o","n","g",">","U'">>, <<"<","/","s","t","r","o","n","g",">"," ","U'">>>>,
    <<<<"<","/","s","t","r","o","n","g",">","U*">>, <<"<","/","s","t","r","o","n","g",">"," ","U*">>>>,
    <<<<"<","/","s","t","r","o","n","g",">","Y'">>, <<"<","/","s","t","r","o","n","g",">"," ","Y'">>>>,
    <<<<"<","/","s","t","r","o","n","g",">","C^">>, <<"<","/","s","t","r","o","n","g",">"," ","C^">>>>,
    <<<<"<","/","s","t","r","o","n","g",">","D^">>, <<"<","/","s","t","r","o","n","g",">"," ","D^">>>>,
    <<<<"<","/","s","t","r","o","n","g",">","E^">>, <<"<","/","s","t","r","o","n","g",">"," ","E^">>>>,
    <<<<"<","/","s","t","r","o","n","g",">","N^">>, <<"<","/","s","t","r","o","n","g",">"," ","N^">>>>,
    <<<<"<","/","s","t","r","o","n","g",">","R^">>, <<"<","/","s","t","r","o","n","g",">"," ","R^">>>>,
    <<<<"<","/","s","t","r","o","n","g",">","S^">>, <<"<","/","s","t","r","o","n","g",">"," ","S^">>>>,
    <<<<"<","/","s","t","r","o","n","g",">","T^">>, <<"<","/","s","t","r","o","n","g",">"," ","T^">>>>,
    <<<<"<","/","s","t","r","o","n","g",">","Z^">>, <<"<","/","s","t","r","o","n","g",">"," ","Z^">>>>,
    <<<<"<","/","s","t","r","o","n","g",">","0">>, <<"<","/","s","t","r","o","n","g",">"," ","0">>>>,
    <<<<"<","/","s","t","r","o","n","g",">","1">>, <<"<","/","s","t","r","o","n","g",">"," ","1">>>>,
    <<<<"<","/","s","t","r","o","n","g",">","2">>, <<"<","/","s","t","r","o","n","g",">"," ","2">>>>,
    <<<<"<","/","s","t","r","o","n","g",">","3">>, <<"<","/","s","t","r","o","n","g",">"," ","3">>>>,
    <<<<"<","/","s","t","r","o","n","g",">","4">>, <<"<","/","s","t","r","o","n","g",">"," ","4">>>>,
    <<<<"<","/","s","t","r","o","n","g",">","5">>, <<"<","/","s","t","r","o","n","g",">"," ","5">>>>,
    <<<<"<","/","s","t","r","o","n","g",">","6">>, <<"<","/","s","t","r","o","n","g",">"," ","6">>>>,
    <<<<"<","/","s","t","r","o","n","g",">","7">>, <<"<","/","s","t","r","o","n","g",">"," ","7">>>>,
    <<<<"<","/","s","t","r","o","n","g",">","8">>, <<"<","/","s","t","r","o","n","g",">"," ","8">>>>,
    <<<<"<","/","s","t","r","o","n","g",">","9">>, <<"<","/","s","t","r","o","n","g",">"," ","9">>>>
  >>

\* for original, fixed in patterns: result = result.replace(original, fixed)
ReplaceAll(patterns) ==
    [k \in 1..Len(patterns) |-> ReplacePass(patterns[k][1], patterns[k][2])]

\* [a-zA-Z0-9 a'..z^ A'..Z^ .,;:!?]
StrongClass ==
    AsciiLower \cup AsciiUpper \cup Digits \cup CzLower \cup CzUpper \cup SentPunct

strong_open == <<"<","s","t","r","o","n","g">>              \* '<strong'
strong_close == <<"<","/","s","t","r","o","n","g",">">>     \* '</strong>'

\* ([cls])(<strong) -> \1 \2 and (</strong>)([cls]) -> \1 \2
SafetyNet ==
  <<
    Pass(<<One(StrongClass), Mark, Lit(strong_open)>>, InsSpace),
    Pass(<<Lit(strong_close), Mark, One(StrongClass)>>, InsSpace)
  >>

force_strong_tag_spacing_passes ==
    <<Pass(<<NotOne(White), Mark, Lit(strong_open)>>, InsSpace),     \* Pass 1
      Pass(<<Lit(strong_close), Mark, NotOne(White)>>, InsSpace)>>   \* Pass 2
    \o ReplaceAll(problematic_patterns)                              \* Pass 3
    \o ReplaceAll(closing_patterns)                                  \* Pass 4
    \o SafetyNet                                                     \* Pass 5
    \o CollapseSpaces                                                \* Pass 6

force_strong_tag_spacing(text) ==
    IF text = <<>> THEN text ELSE RunPasses(force_strong_tag_spacing_passes, text)

-----------------------------------------------------------------------------
(* The translation engine (self.translator, a googletrans Translator) and   *)
(* translate_with_google / _translate_long_text (article_translator.py,     *)
(* lines 154-220).                                                          *)

max_retries == 3      \* self.max_retries
retry_delay == 1      \* self.retry_delay, in seconds
ChunkLimit == 4500    \* the length above which a text is sent in chunks

\* One symbol that stands for a run of FillLen '#' characters.  No pattern of the
\* class tells a run of '#' from a single '#': the character is in no class, in no
\* literal, and is matched only by [^\s] or [^>]*.
Filler == "#..#"
FillLen == 4500       \* length of the run behind Filler

\* len(s)
PyLen(s) == Len(s) + (FillLen - 1) * Cardinality({j \in 1..Len(s) : s[j] = Filler})

NotSpace(c) == c # " "

\* Replies of the engine to a request.  The engine is not part of the repository;
\* it may return the request as it is, delete the spaces (also those around the
\* placeholders), or widen every space to two.
DropSpaces(req) == SelectSeq(req, NotSpace)
DoubleSpaces(req) == str_replace(req, <<" ">>, <<" ", " ">>)
EngineReplies(req) == {req, DropSpaces(req), DoubleSpaces(req)}

\* entries of log
CallEntry(req, ok, reply) ==
    [kind |-> "call", req |-> req, ok |-> ok, reply |-> reply, secs |-> 0]
SleepEntry(secs) ==
    [kind |-> "sleep", req |-> <<>>, ok |-> FALSE, reply |-> <<>>, secs |-> secs]

longVars == <<long_sentences, part, current_chunk, translated_parts>>

\* the entry points that hand their texts to translate_text
UnitEntries == {"translate_text", "translate_html_content"}

\* translate_with_google returns v: to translate_text when the text came through it
ReturnFromGoogle(v) ==
    IF fn \in UnitEntries
    THEN pc' = "apply_critical_terms" /\ translated' = v /\ UNCHANGED ret
    ELSE pc' = "done" /\ ret' = v /\ UNCHANGED translated

\* The for loop of _translate_long_text from part k on with current_chunk = cur, up
\* to the part at which current_chunk is sent (Len(parts) + 1: the loop is over).
RECURSIVE Scan(_, _, _)
Scan(parts, k, cur) ==
    IF k > Len(parts) THEN [part |-> k, current_chunk |-> cur]
    ELSE IF PyLen(cur \o parts[k]) < ChunkLimit THEN Scan(parts, k + 1, cur \o parts[k])
    ELSE IF cur # <<>> THEN [part |-> k, current_chunk |-> cur]
    ELSE Scan(parts, k + 1, parts[k])

\* _translate_long_text runs from part k on until it sends a chunk or returns; the
\* chunk is shielded again before it is sent, which replaces self.html_replacements
LoopFrom(parts, k, cur, done, repl) ==
    LET sc == Scan(parts, k, cur) IN
    /\ long_sentences' = parts
    /\ part' = sc.part
    /\ current_chunk' = sc.current_chunk
    /\ translated_parts' = done
    /\ IF sc.current_chunk # <<>>
       THEN /\ pc' = "chunk"
            /\ html_replacements' =
                   preprocess_for_translation(sc.current_chunk, repl).html_replacements
            /\ UNCHANGED <<translated, ret>>
       ELSE /\ html_replacements' = repl
            /\ ReturnFromGoogle(Join(done))

\* a variant that lets only the empty text through untranslated
IsBlank_EmptyOnly(text) == text = <<>>
\* if not text or not text.strip()
IsBlank(text) == ~HasVisible(text)

\* translate_with_google(text) up to its first call of the engine
Enter_translate_with_google(text) ==
    IF IsBlank(text)
    THEN /\ ReturnFromGoogle(text)
         /\ UNCHANGED <<html_replacements, preprocessed_text, attempt>>
         /\ UNCHANGED longVars
    ELSE LET r == preprocess_for_translation(text, html_replacements) IN
         /\ preprocessed_text' = r.text
         /\ attempt' = 0
         /\ IF PyLen(r.text) > ChunkLimit
            THEN LoopFrom(re_split(SentenceSep, r.text), 1, <<>>, <<>>, r.html_replacements)
            ELSE /\ pc' = "attempt"
                 /\ html_replacements' = r.html_replacements
                 /\ UNCHANGED <<translated, ret>>
                 /\ UNCHANGED longVars

Call_translate_with_google ==
    /\ fn = "translate_with_google"
    /\ pc = "call"
    /\ Enter_translate_with_google(inp)
    /\ UNCHANGED <<fn, inp, hist, log>>
    /\ UNCHANGED outerVars

\* the engine answers the single call: the tags are restored and the text returned
Attempt_translated ==
    /\ pc = "attempt"
    /\ \E reply \in EngineReplies(preprocessed_text) :
         /\ log' = Append(log, CallEntry(preprocessed_text, TRUE, reply))
         /\ ReturnFromGoogle(restore_html_tags(reply, html_replacements))
    /\ UNCHANGED <<fn, inp, hist, html_replacements, preprocessed_text, attempt>>
    /\ UNCHANGED outerVars
    /\ UNCHANGED longVars

\* a variant that sleeps after every failed attempt, the last one included
RetryAfter_Always(a) == a >= 0
\* if attempt < self.max_retries - 1
RetryAfter(a) == a < max_retries - 1

\* a variant whose fallback is the empty text
FallbackText_Empty(shielded) == SubSeq(shielded, 1, 0)
\* return preprocessed_text, after the last attempt failed
FallbackText(shielded) == shielded

\* the engine raises in the single call: sleep and go round the loop again, or
\* return the shielded text after the last attempt
Attempt_failed ==
    /\ pc = "attempt"
    /\ IF RetryAfter(attempt)
       THEN /\ log' = log \o <<CallEntry(preprocessed_text, FALSE, <<>>),
                               SleepEntry(retry_delay)>>
            /\ attempt' = attempt + 1
            /\ IF attempt + 1 < max_retries
               THEN pc' = "attempt" /\ UNCHANGED <<translated, ret>>
               ELSE ReturnFromGoogle(None)
       ELSE /\ log' = Append(log, CallEntry(preprocessed_text, FALSE, <<>>))
            /\ attempt' = attempt
            /\ ReturnFromGoogle(FallbackText(preprocessed_text))
    /\ UNCHANGED <<fn, inp, hist, html_replacements, preprocessed_text>>
    /\ UNCHANGED outerVars
    /\ UNCHANGED longVars

\* the text of current_chunk as it goes to the engine
preprocessed_chunk == preprocess_for_translation(current_chunk, html_replacements).text

\* a variant that loses the part at which the chunk was sent
NextChunkStart_Dropped(parts, k) == SubSeq(parts[k], 1, 0)
\* current_chunk = part, after the chunk was sent inside the loop
NextChunkStart(parts, k) == parts[k]

\* _translate_long_text goes on after the chunk gave the text t
AfterChunk(t) ==
    LET done == Append(translated_parts, t) IN
    IF part <= Len(long_sentences)
    THEN LoopFrom(long_sentences, part + 1, NextChunkStart(long_sentences, part), done,
                  html_replacements)
    ELSE /\ translated_parts' = done
         /\ ReturnFromGoogle(Join(done))
         /\ UNCHANGED <<html_replacements, long_sentences, part, current_chunk>>

\* the engine answers the call for a chunk
Chunk_translated ==
    /\ pc = "chunk"
    /\ \E reply \in EngineReplies(preprocessed_chunk) :
         /\ log' = Append(log, CallEntry(preprocessed_chunk, TRUE, reply))
         /\ AfterChunk(restore_html_tags(reply, html_replacements))
    /\ UNCHANGED <<fn, inp, hist, preprocessed_text, attempt>>
    /\ UNCHANGED outerVars

\* a variant in which a chunk whose call failed contributes nothing
restored_chunk_Lost(chunk, repl) == SubSeq(chunk, 1, 0)
\* restored_chunk = self.restore_html_tags(preprocessed_chunk)
restored_chunk(chunk, repl) == restore_html_tags(chunk, repl)

\* the engine raises in the call for a chunk: the shielded chunk is restored and kept
Chunk_failed ==
    /\ pc = "chunk"
    /\ log' = Append(log, CallEntry(preprocessed_chunk, FALSE, <<>>))
    /\ AfterChunk(restored_chunk(preprocessed_chunk, html_replacements))
    /\ UNCHANGED <<fn, inp, hist, preprocessed_text, attempt>>
    /\ UNCHANGED outerVars

MaxGoogleBlocks == 3  \* blocks in one input of translate_with_google

GoogleBlocks ==
  {
    <<"<","b",">">>,
    <<"a">>,
    <<" ">>,
    <<".">>,
    <<"(">>,
    <<"!"," ">>,
    <<Filler>>
  }

InitGoogle ==
    /\ fn = "translate_with_google"
    /\ inp \in Texts(GoogleBlocks, MaxGoogleBlocks)
    /\ hist = <<>>
    /\ html_replacements = NoAttr
    /\ Idle("call")

NextGoogle ==
    \/ Call_translate_with_google
    \/ Attempt_translated
    \/ Attempt_failed
    \/ Chunk_translated
    \/ Chunk_failed

SpecGoogle == InitGoogle /\ [][NextGoogle]_vars

IsCall(e) == e.kind = "call"
\* the calls of the engine, in order, and the texts they were given
Calls == SelectSeq(log, IsCall)
Requests == [k \in 1..Len(Calls) |-> Calls[k].req]

\* the shielded text went, or goes, through the chunked path / the single call
LongPath == preprocessed_text # None /\ PyLen(preprocessed_text) > ChunkLimit
ShortPath == preprocessed_text # None /\ PyLen(preprocessed_text) <= ChunkLimit

\* every call of the engine so far returned its request unchanged
EngineEchoes ==
    \A k \in 1..Len(log) : IsCall(log[k]) => (log[k].ok /\ log[k].reply = log[k].req)

\* C9: chunk reassembly: for a shielded text above the threshold and an engine that
\* returns its input unchanged, the chunked path returns the shielded text; the
\* chunks sent are consecutive pieces of it, in order, none dropped or repeated.
C9_ChunkReassembly ==
    (fn = "translate_with_google" /\ pc = "done" /\ LongPath /\ EngineEchoes) =>
        /\ ret = preprocessed_text
        /\ Join(Requests) = preprocessed_text

\* a text above the threshold that went to an echoing engine in two or more chunks
C9_Witness ==
    /\ fn = "translate_with_google" /\ pc = "done" /\ LongPath /\ EngineEchoes
    /\ Len(Calls) >= 2
    /\ ret = preprocessed_text

\* C10: retry policy of the single call: at most max_retries calls of the engine, the
\* first successful call ends the method, the fixed delay is slept only between a
\* failed attempt and the next attempt, and the method returns a text whatever fails.
C10_RetryPolicy ==
    (fn = "translate_with_google" /\ ShortPath) =>
        /\ Len(Calls) <= max_retries
        /\ \A k \in 1..Len(log) :
              (IsCall(log[k]) /\ log[k].ok) => (k = Len(log) /\ pc = "done")
        /\ \A k \in 1..Len(log) :
              log[k].kind = "sleep" =>
                  /\ log[k].secs = retry_delay
                  /\ k > 1 /\ IsCall(log[k - 1]) /\ ~log[k - 1].ok
                  /\ IF k < Len(log) THEN IsCall(log[k + 1]) ELSE pc = "attempt"
        /\ pc = "done" => ret # None

\* two failed attempts, two sleeps, and a third attempt that succeeds
C10_Witness ==
    /\ fn = "translate_with_google" /\ ShortPath /\ pc = "done"
    /\ Len(log) = 5
    /\ ~log[1].ok /\ log[2].kind = "sleep" /\ ~log[3].ok /\ log[4].kind = "sleep"
    /\ log[5].ok
    /\ ret # None

-----------------------------------------------------------------------------
(* translate_text: the engine, the term override, the spacing and           *)
(* capitalization stages and the final passes (article_translator.py,       *)
(* lines 244-366).                                                          *)

\* the seven direct replacements after force_strong_tag_spacing: <<old, new>>
direct_replacements ==
  <<
    <<<<"n","a","<","s","t","r","o","n","g",">">>, <<"n","a"," ","<","s","t","r","o","n","g",">">>>>,
    <<<<"<","/","s","t","r","o","n","g",">","V">>, <<"<","/","s","t","r","o","n","g",">"," ","V">>>>,
    <<<<"<","/","s","t","r","o","n","g",">","T">>, <<"<","/","s","t","r","o","n","g",">"," ","T">>>>,
    <<<<"<","/","s","t","r","o","n","g",">","A">>, <<"<","/","s","t","r","o","n","g",">"," ","A">>>>,
    <<<<"<","/","s","t","r","o","n","g",">","I">>, <<"<","/","s","t","r","o","n","g",">"," ","I">>>>,
    <<<<"<","/","s","t","r","o","n","g",">","O">>, <<"<","/","s","t","r","o","n","g",">"," ","O">>>>,
    <<<<"<","/","s","t","r","o","n","g",">","U">>, <<"<","/","s","t","r","o","n","g",">"," ","U">>>>
  >>

problematic_before ==
  <<
    <<"n","a">>, <<"p","r","o">>, <<"d","o">>, <<"z","a">>, <<"o","d">>, <<"p","o">>, <<"v">>,
    <<"s">>, <<"k">>, <<"o">>, <<"s","e">>, <<"n","a"," ">>,
    <<"n","a'","s","t","r","o","j","e">>, <<"p","r^","i">>, <<"p","r^","e","d">>,
    <<"n","a","d">>, <<"p","o","d">>, <<"m","e","z","i">>, <<"b","e","z">>,
    <<"p","o","d","l","e">>, <<"b","e^","h","e","m">>, <<"k","o","l","e","m">>,
    <<"n","a'","s","t","r","o","j">>, <<"p","r","o","g","r","a","m">>,
    <<"s","o","f","t","w","a","r","e">>, <<"f","u","n","k","c","e">>,
    <<"m","o","z^","n","o","s","t">>, <<"z","p","u*","s","o","b">>, <<"m","e","t","o","d","a">>
  >>

problematic_after ==
  <<
    <<"V">>, <<"T">>, <<"A">>, <<"I">>, <<"O">>, <<"U">>, <<"E">>, <<"N">>, <<"S">>, <<"K">>,
    <<"P">>, <<"R">>, <<"L">>, <<"M">>, <<"D">>, <<"B">>, <<"C">>, <<"F">>, <<"G">>, <<"H">>,
    <<"J">>, <<"Q">>, <<"W">>, <<"X">>, <<"Y">>, <<"Z">>
  >>

\* nuclear_patterns: <<original, fixed>>
nuclear_patterns ==
  <<
    <<<<"n","a","<","s","t","r","o","n","g",">">>, <<"n","a"," ","<","s","t","r","o","n","g",">">>>>,
    <<<<"p","r","o","<","s","t","r","o","n","g",">">>, <<"p","r","o"," ","<","s","t","r","o","n","g",">">>>>,
    <<<<"d","o","<","s","t","r","o","n","g",">">>, <<"d","o"," ","<","s","t","r","o","n","g",">">>>>,
    <<<<"z","a","<","s","t","r","o","n","g",">">>, <<"z","a"," ","<","s","t","r","o","n","g",">">>>>,
    <<<<"o","d","<","s","t","r","o","n","g",">">>, <<"o","d"," ","<","s","t","r","o","n","g",">">>>>,
    <<<<"p","o","<","s","t","r","o","n","g",">">>, <<"p","o"," ","<","s","t","r","o","n","g",">">>>>,
    <<<<"v","<","s","t","r","o","n","g",">">>, <<"v"," ","<","s","t","r","o","n","g",">">>>>,
    <<<<"s","<","s","t","r","o","n","g",">">>, <<"s"," ","<","s","t","r","o","n","g",">">>>>,
    <<<<"k","<","s","t","r","o","n","g",">">>, <<"k"," ","<","s","t","r","o","n","g",">">>>>,
    <<<<"o","<","s","t","r","o","n","g",">">>, <<"o"," ","<","s","t","r","o","n","g",">">>>>,
    <<<<"n","a","<","s","t","r","o","n","g",">">>, <<"n","a"," ","<","s","t","r","o","n","g",">">>>>,
    <<<<"n","a'","s","t","r","o","j","e","<","s","t","r","o","n","g",">">>, <<"n","a'","s","t","r","o","j","e"," ","<","s","t","r","o","n","g",">">>>>,
    <<<<"p","r^","i","<","s","t","r","o","n","g",">">>, <<"p","r^","i"," ","<","s","t","r","o","n","g",">">>>>,
    <<<<"p","r^","e","d","<","s","t","r","o","n","g",">">>, <<"p","r^","e","d"," ","<","s","t","r","o","n","g",">">>>>,
    <<<<"n","a","d","<","s","t","r","o","n","g",">">>, <<"n","a","d"," ","<","s","t","r","o","n","g",">">>>>,
    <<<<"p","o","d","<","s","t","r","o","n","g",">">>, <<"p","o","d"," ","<","s","t","r","o","n","g",">">>>>,
    <<<<"m","e","z","i","<","s","t","r","o","n","g",">">>, <<"m","e","z","i"," ","<","s","t","r","o","n","g",">">>>>,
    <<<<"b","e","z","<","s","t","r","o","n","g",">">>, <<"b","e","z"," ","<","s","t","r","o","n","g",">">>>>,
    <<<<"p","o","d","l","e","<","s","t","r","o","n","g",">">>, <<"p","o","d","l","e"," ","<","s","t","r","o","n","g",">">>>>,
    <<<<"b","e^","h","e","m","<","s","t","r","o","n","g",">">>, <<"b","e^","h","e","m"," ","<","s","t","r","o","n","g",">">>>>,
    <<<<"k","o","l","e","m","<","s","t","r","o","n","g",">">>, <<"k","o","l","e","m"," ","<","s","t","r","o","n","g",">">>>>,
    <<<<"n","a'","s","t","r","o","j","<","s","t","r","o","n","g",">">>, <<"n","a'","s","t","r","o","j"," ","<","s","t","r","o","n","g",">">>>>,
    <<<<"p","r","o","g","r","a","m","<","s","t","r","o","n","g",">">>, <<"p","r","o","g","r","a","m"," ","<","s","t","r","o","n","g",">">>>>,
    <<<<"s","o","f","t","w","a","r","e","<","s","t","r","o","n","g",">">>, <<"s","o","f","t","w","a","r","e"," ","<","s","t","r","o","n","g",">">>>>,
    <<<<"f","u","n","k","c","e","<","s","t","r","o","n","g",">">>, <<"f","u","n","k","c","e"," ","<","s","t","r","o","n","g",">">>>>,
    <<<<"m","o","z^","n","o","s","t","<","s","t","r","o","n","g",">">>, <<"m","o","z^","n","o","s","t"," ","<","s","t","r","o","n","g",">">>>>,
    <<<<"z","p","u*","s","o","b","<","s","t","r","o","n","g",">">>, <<"z","p","u*","s","o","b"," ","<","s","t","r","o","n","g",">">>>>,
    <<<<"m","e","t","o","d","a","<","s","t","r","o","n","g",">">>, <<"m","e","t","o","d","a"," ","<","s","t","r","o","n","g",">">>>>,
    <<<<"<","/","s","t","r","o","n","g",">","V">>, <<"<","/","s","t","r","o","n","g",">"," ","V">>>>,
    <<<<"<","/","s","t","r","o","n","g",">","T">>, <<"<","/","s","t","r","o","n","g",">"," ","T">>>>,
    <<<<"<","/","s","t","r","o","n","g",">","A">>, <<"<","/","s","t","r","o","n","g",">"," ","A">>>>,
    <<<<"<","/","s","t","r","o","n","g",">","I">>, <<"<","/","s","t","r","o","n","g",">"," ","I">>>>,
    <<<<"<","/","s","t","r","o","n","g",">","O">>, <<"<","/","s","t","r","o","n","g",">"," ","O">>>>,
    <<<<"<","/","s","t","r","o","n","g",">","U">>, <<"<","/","s","t","r","o","n","g",">"," ","U">>>>,
    <<<<"<","/","s","t","r","o","n","g",">","E">>, <<"<","/","s","t","r","o","n","g",">"," ","E">>>>,
    <<<<"<","/","s","t","r","o","n","g",">","N">>, <<"<","/","s","t","r","o","n","g",">"," ","N">>>>,
    <<<<"<","/","s","t","r","o","n","g",">","S">>, <<"<","/","s","t","r","o","n","g",">"," ","S">>>>,
    <<<<"<","/","s","t","r","o","n","g",">","K">>, <<"<","/","s","t","r","o","n","g",">"," ","K">>>>,
    <<<<"<","/","s","t","r","o","n","g",">","P">>, <<"<","/","s","t","r","o","n","g",">"," ","P">>>>,
    <<<<"<","/","s","t","r","o","n","g",">","R">>, <<"<","/","s","t","r","o","n","g",">"," ","R">>>>,
    <<<<"<","/","s","t","r","o","n","g",">","L">>, <<"<","/","s","t","r","o","n","g",">"," ","L">>>>,
    <<<<"<","/","s","t","r","o","n","g",">","M">>, <<"<","/","s","t","r","o","n","g",">"," ","M">>>>,
    <<<<"<","/","s","t","r","o","n","g",">","D">>, <<"<","/","s","t","r","o","n","g",">"," ","D">>>>,
    <<<<"<","/","s","t","r","o","n","g",">","B">>, <<"<","/","s","t","r","o","n","g",">"," ","B">>>>,
    <<<<"<","/","s","t","r","o","n","g",">","C">>, <<"<","/","s","t","r","o","n","g",">"," ","C">>>>,
    <<<<"<","/","s","t","r","o","n","g",">","F">>, <<"<","/","s","t","r","o","n","g",">"," ","F">>>>,
    <<<<"<","/","s","t","r","o","n","g",">","G">>, <<"<","/","s","t","r","o","n","g",">"," ","G">>>>,
    <<<<"<","/","s","t","r","o","n","g",">","H">>, <<"<","/","s","t","r","o","n","g",">"," ","H">>>>,
    <<<<"<","/","s","t","r","o","n","g",">","J">>, <<"<","/","s","t","r","o","n","g",">"," ","J">>>>,
    <<<<"<","/","s","t","r","o","n","g",">","Q">>, <<"<","/","s","t","r","o","n","g",">"," ","Q">>>>,
    <<<<"<","/","s","t","r","o","n","g",">","W">>, <<"<","/","s","t","r","o","n","g",">"," ","W">>>>,
    <<<<"<","/","s","t","r","o","n","g",">","X">>, <<"<","/","s","t","r","o","n","g",">"," ","X">>>>,
    <<<<"<","/","s","t","r","o","n","g",">","Y">>, <<"<","/","s","t","r","o","n","g",">"," ","Y">>>>,
    <<<<"<","/","s","t","r","o","n","g",">","Z">>, <<"<","/","s","t","r","o","n","g",">"," ","Z">>>>
  >>

strong_tag == strong_open \o <<">">>                      \* '<strong>'

\* Pass 1: ([a-z])(<strong) and (</strong>)([a-z]), flags=re.IGNORECASE
FinalPass1 ==
  <<
    PassIC(<<One(AsciiLower), Mark, Lit(strong_open)>>, InsSpace),
    PassIC(<<Lit(strong_close), Mark, One(AsciiLower)>>, InsSpace)
  >>
\* Pass 2, for word in problematic_before: 'word<strong>' -> 'word <strong>'
FinalPass2 ==
    [k \in 1..Len(problematic_before) |->
        ReplacePass(problematic_before[k] \o strong_tag,
                    problematic_before[k] \o <<" ">> \o strong_tag)]
\* Pass 3, for letter in problematic_after: '</strong>X' -> '</strong> X'
FinalPass3 ==
    [k \in 1..Len(problematic_after) |->
        ReplacePass(strong_close \o problematic_after[k],
                    strong_close \o <<" ">> \o problematic_after[k])]
\* Pass 4: ([^\s])(<strong>) and (</strong>)([^\s])
FinalPass4 ==
  <<
    Pass(<<NotOne(White), Mark, Lit(strong_tag)>>, InsSpace),
    Pass(<<Lit(strong_close), Mark, NotOne(White)>>, InsSpace)
  >>
\* Pass 6 left out: runs of whitespace stay as they are
FinalPass6_Skipped == SubSeq(CollapseSpaces, 1, 0)
\* Pass 6: re.sub(r'\s{2,}', ' ', translated)
FinalPass6 == <<Pass(<<AtLeast(White, 2)>>, Const(<<" ">>))>>

final_passes ==
    ReplaceAll(direct_replacements) \o FinalPass1 \o FinalPass2 \o FinalPass3
        \o FinalPass4 \o ReplaceAll(nuclear_patterns) \o FinalPass6 \o SafetyNet

Call_translate_text ==
    /\ fn \in UnitEntries
    /\ pc = "call"
    /\ IF IsBlank(inp)
       THEN /\ pc' = "done"
            /\ ret' = inp
            /\ UNCHANGED <<html_replacements, preprocessed_text, attempt, translated>>
            /\ UNCHANGED longVars
       ELSE Enter_translate_with_google(inp)
    /\ UNCHANGED <<fn, inp, hist, log>>
    /\ UNCHANGED outerVars

\* what a stage of translate_text leaves alone
StageFrame ==
    /\ UNCHANGED <<fn, inp, hist, html_replacements, preprocessed_text, attempt, ret, log>>
    /\ UNCHANGED outerVars
    /\ UNCHANGED longVars

\* translated = self.apply_critical_terms(translated)
Step_apply_critical_terms ==
    /\ pc = "apply_critical_terms"
    /\ translated' = apply_critical_terms(translated)
    /\ pc' = "fix_html_spacing"
    /\ StageFrame

\* translated = self.fix_html_spacing(translated)
Step_fix_html_spacing ==
    /\ pc = "fix_html_spacing"
    /\ translated' = fix_html_spacing(translated)
    /\ pc' = "post_translation_spacing_fix"
    /\ StageFrame

\* translated = self.post_translation_spacing_fix(translated)
Step_post_translation_spacing_fix ==
    /\ pc = "post_translation_spacing_fix"
    /\ translated' = post_translation_spacing_fix(translated)
    /\ pc' = "fix_capitalization"
    /\ StageFrame

\* translated = self.fix_capitalization(translated)
Step_fix_capitalization ==
    /\ pc = "fix_capitalization"
    /\ translated' = fix_capitalization(translated)
    /\ pc' = "force_strong_tag_spacing"
    /\ StageFrame

\* translated = self.force_strong_tag_spacing(translated)
Step_force_strong_tag_spacing ==
    /\ pc = "force_strong_tag_spacing"
    /\ translated' = force_strong_tag_spacing(translated)
    /\ pc' = "final_passes"
    /\ StageFrame

\* the direct replacements and Pass 1 to Pass 7, then return translated
Step_final_passes ==
    /\ pc = "final_passes"
    /\ translated' = RunPasses(final_passes, translated)
    /\ ret' = translated'
    /\ pc' = "done"
    /\ UNCHANGED <<fn, inp, hist, html_replacements, preprocessed_text, attempt, log>>
    /\ UNCHANGED outerVars
    /\ UNCHANGED longVars

MaxPipeBlocks == 2    \* blocks in one input of translate_text

PipeBlocks ==
  {
    <<"(">>,
    <<"<","e","m",">">>,
    <<"<","/","e","m",">">>,
    <<"o","n","a">>,
    <<"<","s","t","r","o","n","g",">">>,
    <<" ">>,
    <<".">>,
    <<Filler>>
  }

InitPipe ==
    /\ fn = "translate_text"
    /\ inp \in Texts(PipeBlocks, MaxPipeBlocks)
    /\ hist = <<>>
    /\ html_replacements = NoAttr
    /\ Idle("call")

NextPipe ==
    \/ Call_translate_text
    \/ Attempt_translated
    \/ Attempt_failed
    \/ Chunk_translated
    \/ Chunk_failed
    \/ Step_apply_critical_terms
    \/ Step_fix_html_spacing
    \/ Step_post_translation_spacing_fix
    \/ Step_fix_capitalization
    \/ Step_force_strong_tag_spacing
    \/ Step_final_passes

SpecPipe == InitPipe /\ [][NextPipe]_vars

\* a non-whitespace character stands directly before an opening inline tag of s, or
\* directly after a closing inline tag of s
TagTouchesText(s) ==
    \/ \E i \in 2..Len(s) :
          /\ s[i - 1] \notin White
          /\ MatchFrom(AnyOpenTag, 1, s, i, i, FALSE) # NoMatch
    \/ \E i \in 1..Len(s) :
          LET m == MatchFrom(AnyCloseTag, 1, s, i, i, FALSE) IN
          m # NoMatch /\ m[1] <= Len(s) /\ s[m[1]] \notin White

\* C1: for every input and every reply of the engine, the text translate_text returns
\* has no non-whitespace character directly before an opening inline tag and none
\* directly after a closing inline tag.
C1_NoAdjacency ==
    (fn = "translate_text" /\ pc = "done") => ~TagTouchesText(ret)

HasDoubleSpace(s) == Contains(s, <<" ", " ">>)

\* C3 as stated: for every input and every reply of the engine, the text
\* translate_text returns never has two consecutive spaces.
C3_NoDoubleSpace_AnyInput ==
    (fn = "translate_text" /\ pc = "done") => ~HasDoubleSpace(ret)

\* C3, amended: for every input that is not made of whitespace only and every reply
\* of the engine, the text translate_text returns never has two consecutive spaces.
C3_NoDoubleSpace ==
    (fn = "translate_text" /\ pc = "done" /\ HasVisible(inp)) => ~HasDoubleSpace(ret)

\* a text with a tag whose engine reply had doubled spaces went through all stages
C3_Witness ==
    /\ fn = "translate_text" /\ pc = "done" /\ HasVisible(inp)
    /\ InlineTags(inp) # <<>>
    /\ Len(Calls) = 1 /\ Calls[1].ok /\ HasDoubleSpace(Calls[1].reply)
    /\ ~HasDoubleSpace(ret)

-----------------------------------------------------------------------------
(* Properties of the fallback and of the chunked path.                     *)

\* HTMLTAG\d+ENDTAG
placeholder_pattern ==
    <<Lit(<<"H","T","M","L","T","A","G">>), Plus(Digits), Lit(<<"E","N","D","T","A","G">>)>>

\* s holds a placeholder token
HasPlaceholder(s) == NextMatch(placeholder_pattern, s, 1, FALSE) # 0

\* every call of the engine so far raised
EngineAlwaysFails == \A k \in 1..Len(log) : IsCall(log[k]) => ~log[k].ok

\* C11: fallback text: when every attempt of translate_with_google fails for a text
\* with inline tags, the returned text holds every original tag, in order, and no
\* placeholder token.
C11_FallbackRestored ==
    (/\ fn = "translate_with_google" /\ pc = "done" /\ ShortPath
     /\ Len(Calls) = max_retries /\ EngineAlwaysFails
     /\ InlineTags(inp) # <<>>) =>
        /\ InlineTags(ret) = InlineTags(inp)
        /\ ~HasPlaceholder(ret)

\* self.html_replacements while the chunk whose request is req is under way
ChunkMap(req) == preprocess_for_translation(req, NoAttr).html_replacements

\* what the call e of the chunked path adds to the result: the unshielded reply, or
\* the untranslated chunk when the engine raised
Contribution(e) == IF e.ok THEN restore_html_tags(e.reply, ChunkMap(e.req)) ELSE e.req
Contributions == [k \in 1..Len(Calls) |-> Contribution(Calls[k])]

\* C12: chunk failure isolation: whatever chunks the engine fails on, every chunk of
\* the shielded text is sent, and the result is the concatenation, in order, of the
\* untranslated text of each failed chunk and the reply for each other chunk; the
\* method returns a text.
C12_ChunkFailureIsolation ==
    (fn = "translate_with_google" /\ pc = "done" /\ LongPath) =>
        /\ Join(Requests) = preprocessed_text
        /\ ret = Join(Contributions)
        /\ ret # None

\* a behaviour of the chunked path in which a chunk failed, and a later chunk was
\* sent all the same and answered with a changed text
C12_Witness ==
    /\ fn = "translate_with_google" /\ pc = "done" /\ LongPath
    /\ \E j, k \in 1..Len(Calls) :
          /\ j < k
          /\ ~Calls[j].ok
          /\ Calls[k].ok /\ Calls[k].reply # Calls[k].req
    /\ ret = Join(Contributions)


-----------------------------------------------------------------------------
(* BatchTranslator.process_urls_list (batch_translator.py, lines 27-57):    *)
(* the articles of a list one after the other, each inside its own          *)
(* try/except.  translate_article is taken as a whole: it returns a result  *)
(* or raises an Exception, whatever the reason (fetch, parsing, files).     *)
(* The print calls are taken not to raise.                                  *)

\* the entry appended to self.results
SuccessRecord(url) == [url |-> url, status |-> "success"]
\* error_info, the entry appended to self.errors
ErrorRecord(url) == [url |-> url, status |-> "error"]

\* self.html_replacements of the translator after an article: as it was when no
\* text was shielded, the map of the last text (text nodes hold no tags) otherwise
ArticleMaps == {html_replacements, [has |-> TRUE, tags |-> <<>>]}

\* a variant in which an exception leaves the loop
AfterError_Break(total, k) == total
\* the except clause stands inside the for loop: on to the next URL
AfterError(total, k) == k + 1

\* translate_article returns for the URL at position url_index + 1
Article_translated ==
    /\ fn = "process_urls_list"
    /\ url_index < Len(inp)
    /\ results' = Append(results, SuccessRecord(inp[url_index + 1]))
    /\ url_index' = url_index + 1
    /\ hist' = Append(hist, "returned")
    /\ html_replacements' \in ArticleMaps
    /\ UNCHANGED <<fn, inp, errors>>
    /\ UNCHANGED <<callVars, docVars>>

\* translate_article raises for the URL at position url_index + 1
Article_failed ==
    /\ fn = "process_urls_list"
    /\ url_index < Len(inp)
    /\ errors' = Append(errors, ErrorRecord(inp[url_index + 1]))
    /\ url_index' = AfterError(Len(inp), url_index)
    /\ hist' = Append(hist, "raised")
    /\ html_replacements' \in ArticleMaps
    /\ UNCHANGED <<fn, inp, results>>
    /\ UNCHANGED <<callVars, docVars>>

MaxUrls == 3          \* URLs in one list

Urls == {"https://a.sk/1", "https://a.sk/2"}

RECURSIVE UrlLists(_)
UrlLists(n) ==
    IF n = 0 THEN {<<>>}
    ELSE UrlLists(n - 1) \cup {Append(l, u) : l \in UrlLists(n - 1), u \in Urls}

InitBatch ==
    /\ fn = "process_urls_list"
    /\ inp \in UrlLists(MaxUrls)
    /\ hist = <<>>
    /\ html_replacements = NoAttr
    /\ NoCall

NextBatch == Article_translated \/ Article_failed

SpecBatch == InitBatch /\ [][NextBatch]_vars

\* the URLs at the positions 1..n of urls whose outcome was o, in list order
RECURSIVE UrlsWith(_, _, _, _)
UrlsWith(urls, outcomes, n, o) ==
    IF n = 0 THEN <<>>
    ELSE LET before == UrlsWith(urls, outcomes, n - 1, o) IN
         IF outcomes[n] = o THEN Append(before, urls[n]) ELSE before

RecordedUrls(records) == [k \in 1..Len(records) |-> records[k].url]

\* C13: whatever URLs fail, process_urls_list goes through the list in order; at
\* every moment each URL handled so far is recorded exactly once, in results when
\* translate_article returned and in errors when it raised, so a failure neither
\* stops the later URLs nor touches the records of earlier successes.
C13_BatchIsolation ==
    fn = "process_urls_list" =>
        /\ url_index = Len(hist)
        /\ url_index <= Len(inp)
        /\ RecordedUrls(results) = UrlsWith(inp, hist, url_index, "returned")
        /\ RecordedUrls(errors) = UrlsWith(inp, hist, url_index, "raised")
        /\ \A k \in 1..Len(results) : results[k].status = "success"
        /\ \A k \in 1..Len(errors) : errors[k].status = "error"

\* three URLs, the second failed, the first and the third are in results
C13_Witness ==
    /\ fn = "process_urls_list"
    /\ Len(inp) = 3
    /\ hist = <<"returned", "raised", "returned">>
    /\ RecordedUrls(results) = <<inp[1], inp[3]>>
    /\ RecordedUrls(errors) = <<inp[2]>>


-----------------------------------------------------------------------------
(* Text units one after the other on one SlovakCzechTranslator: the         *)
(* document walker, and the batch driver through its single                 *)
(* ArticleTranslator, hand every text to the same instance, whose           *)
(* html_replacements lives on from one call to the next.  hist holds the    *)
(* tags of the units that are finished.                                     *)

MaxUnits == 2         \* text units handed to one instance
MaxUnitBlocks == 2    \* blocks in one text unit

UnitBlocks ==
  {
    <<"<","b",">">>,
    <<"<","/","b",">">>,
    <<"a">>,
    <<Filler>>
  }

InitUnits ==
    /\ fn = "translate_with_google"
    /\ inp \in Texts(UnitBlocks, MaxUnitBlocks)
    /\ hist = <<>>
    /\ html_replacements = NoAttr
    /\ Idle("call")

\* the call for one unit has returned and the next unit is handed over
Next_unit ==
    /\ fn = "translate_with_google"
    /\ pc = "done"
    /\ Len(hist) + 1 < MaxUnits
    /\ hist' = Append(hist, InlineTags(inp))
    /\ inp' \in Texts(UnitBlocks, MaxUnitBlocks)
    /\ pc' = "call"
    /\ preprocessed_text' = None
    /\ attempt' = 0
    /\ long_sentences' = <<>>
    /\ part' = 0
    /\ current_chunk' = <<>>
    /\ translated_parts' = <<>>
    /\ ret' = None
    /\ log' = <<>>
    /\ UNCHANGED <<fn, html_replacements, translated>>
    /\ UNCHANGED outerVars

NextUnits ==
    \/ Call_translate_with_google
    \/ Attempt_translated
    \/ Attempt_failed
    \/ Chunk_translated
    \/ Chunk_failed
    \/ Next_unit

SpecUnits == InitUnits /\ [][NextUnits]_vars

\* restore_html_tags is the next thing to run on the reply, or on the failed chunk
RestoreIsNext == pc \in {"attempt", "chunk"}

\* the text whose shielding built the map that restore_html_tags is to use
ShieldedLast == IF pc = "chunk" THEN current_chunk ELSE inp

\* C14: over any sequence of text units on one instance, whenever restore_html_tags
\* runs, html_replacements holds the tags of the text shielded last for the unit that
\* is being translated and nothing else: no entry made for an earlier unit is left.
C14_MapIsolation ==
    (fn = "translate_with_google" /\ RestoreIsNext) =>
        /\ html_replacements.has
        /\ html_replacements.tags = InlineTags(ShieldedLast)

\* a unit with one tag is about to be restored after a unit with two tags
C14_Witness ==
    /\ fn = "translate_with_google"
    /\ pc = "attempt"
    /\ Len(hist) >= 1
    /\ Len(hist[Len(hist)]) = 2
    /\ Len(InlineTags(inp)) = 1
    /\ html_replacements.tags = InlineTags(inp)


-----------------------------------------------------------------------------
(* ArticleTranslator.translate_html_content and clean_html_content          *)
(* (article_translator.py, lines 908-941 and 988-1041).  The content region *)
(* is the sequence of the nodes inside the content element: a node is a     *)
(* text, a comment or a tag.  find_all(string=True) of the parser library   *)
(* gives every string of the tree, the comments included, and               *)
(* replace_with(str) puts a text in the place of the node.  The documents   *)
(* of the model hold no '<', '>' or '&' in their texts (nothing to escape), *)
(* no header, h1 or header image, no title, alt or placeholder attribute    *)
(* and no styled link, so the other steps of the two methods leave them as  *)
(* they are.                                                                *)

Node(kind, string) == [kind |-> kind, string |-> string]

\* s.strip()
RECURSIVE lstrip(_)
lstrip(s) == IF s # <<>> /\ s[1] \in White THEN lstrip(Tail(s)) ELSE s
RECURSIVE rstrip(_)
rstrip(s) == IF s # <<>> /\ s[Len(s)] \in White THEN rstrip(SubSeq(s, 1, Len(s) - 1)) ELSE s
strip(s) == rstrip(lstrip(s))

CommentOpen == <<"<","!","-","-">>
CommentClose == <<"-","-",">">>
ContentOpen == <<"<","a","r","t","i","c","l","e",">">>      \* the content element found by the first selector
ContentClose == <<"<","/","a","r","t","i","c","l","e",">">>

\* str(node)
Render(n) == IF n.kind = "comment" THEN CommentOpen \o n.string \o CommentClose ELSE n.string

\* str(soup) of the content element with the children nodes
Markup(nodes) ==
    ContentOpen \o Join([k \in 1..Len(nodes) |-> Render(nodes[k])]) \o ContentClose

\* BeautifulSoup(s, 'html.parser'): the nodes of s from position i on
RECURSIVE ParseFrom(_, _)
ParseFrom(s, i) ==
    IF i > Len(s) THEN <<>>
    ELSE IF LitAt(CommentOpen, s, i, FALSE)
    THEN LET j == NextMatch(<<Lit(CommentClose)>>, s, i + Len(CommentOpen), FALSE) IN
         IF j = 0 THEN <<Node("comment", SubSeq(s, i + Len(CommentOpen), Len(s)))>>
         ELSE <<Node("comment", SubSeq(s, i + Len(CommentOpen), j - 1))>>
                  \o ParseFrom(s, j + Len(CommentClose))
    ELSE IF s[i] = "<"
    THEN LET j == NextMatch(<<Lit(<<">">>)>>, s, i, FALSE) IN
         IF j = 0 THEN <<Node("text", SubSeq(s, i, Len(s)))>>
         ELSE <<Node("tag", SubSeq(s, i, j))>> \o ParseFrom(s, j + 1)
    ELSE LET j == NextMatch(<<Lit(<<"<">>)>>, s, i, FALSE)
             e == IF j = 0 THEN Len(s) + 1 ELSE j IN
         <<Node("text", SubSeq(s, i, e - 1))>> \o ParseFrom(s, e)
Parse(s) == ParseFrom(s, 1)

\* the index of the next string after node k that is not blank, 0 when there is none:
\* for text_node in soup.find_all(string=True): if text_node.strip():
NextString(nodes, k) ==
    LET later == {j \in (k + 1)..Len(nodes) :
                     nodes[j].kind # "tag" /\ HasVisible(nodes[j].string)} IN
    IF later = {} THEN 0 ELSE CHOOSE j \in later : \A l \in later : j <= l

\* translate_text is called for the next string of the region
Next_text_node ==
    /\ fn = "translate_html_content"
    /\ doc_pc = "walk"
    /\ pc = "none"
    /\ NextString(translated_content, text_node) # 0
    /\ text_node' = NextString(translated_content, text_node)
    /\ inp' = strip(translated_content[text_node'].string)
    /\ pc' = "call"
    /\ preprocessed_text' = None
    /\ attempt' = 0
    /\ long_sentences' = <<>>
    /\ part' = 0
    /\ current_chunk' = <<>>
    /\ translated_parts' = <<>>
    /\ translated' = None
    /\ ret' = None
    /\ log' = <<>>
    /\ UNCHANGED <<fn, hist, html_replacements, article_content, translated_content, doc_pc>>
    /\ UNCHANGED reparseVars
    /\ UNCHANGED batchVars

\* text_node.replace_with(translated_text): a text stands where the node stood
ReplacedNode(n, text) == Node("text", text)

\* a variant that replaces the node whatever the result is
ShouldReplace_Always(translated_text, node) == translated_text = translated_text
\* if translated_text != text_node.strip():
ShouldReplace(translated_text, node) == translated_text # strip(node.string)

\* if translated_text != text_node.strip(): text_node.replace_with(translated_text)
Write_back ==
    /\ fn = "translate_html_content"
    /\ doc_pc = "walk"
    /\ pc = "done"
    /\ translated_content' =
           IF ShouldReplace(ret, translated_content[text_node])
           THEN [translated_content EXCEPT
                    ![text_node] = ReplacedNode(translated_content[text_node], ret)]
           ELSE translated_content
    /\ pc' = "none"
    /\ UNCHANGED <<fn, inp, hist, html_replacements, preprocessed_text, attempt, translated,
                   ret, log, article_content, text_node, doc_pc>>
    /\ UNCHANGED reparseVars
    /\ UNCHANGED longVars
    /\ UNCHANGED batchVars

\* after the last string: soup_str = force_strong_tag_spacing(str(soup)), and the
\* parsed soup_str becomes the content of the emptied region
Fix_document_spacing ==
    /\ fn = "translate_html_content"
    /\ doc_pc = "walk"
    /\ pc = "none"
    /\ NextString(translated_content, text_node) = 0
    /\ translated_content' = Parse(force_strong_tag_spacing(Markup(translated_content)))
    /\ doc_pc' = "translated"
    /\ UNCHANGED <<fn, inp, hist, html_replacements, article_content, text_node>>
    /\ UNCHANGED reparseVars
    /\ UNCHANGED callVars
    /\ UNCHANGED batchVars

\* re.sub(r'<!--.*?-->', '', soup_str, flags=re.DOTALL) from position i on
RECURSIVE RemoveComments(_, _)
RemoveComments(s, i) ==
    LET j == NextMatch(<<Lit(CommentOpen)>>, s, i, FALSE) IN
    IF j = 0 THEN SubSeq(s, i, Len(s))
    ELSE LET e == NextMatch(<<Lit(CommentClose)>>, s, j + Len(CommentOpen), FALSE) IN
         IF e = 0 THEN SubSeq(s, i, Len(s))
         ELSE SubSeq(s, i, j - 1) \o RemoveComments(s, e + Len(CommentClose))

\* re.sub(r'Blok CTA:[^<]*', '', soup_str, flags=re.IGNORECASE)
cta_label == PassIC(<<Lit(<<"B","l","o","k"," ","C","T","A",":">>), NotStar({"<"})>>, Const(<<>>))

\* clean_html_content(translated_content): the comments and the labels are removed
\* from str(soup) and the rest is parsed again
clean_html_content(nodes) ==
    Parse(ApplyPass(cta_label, RemoveComments(Markup(nodes), 1)))

Clean_document ==
    /\ fn = "translate_html_content"
    /\ doc_pc = "translated"
    /\ translated_content' = clean_html_content(translated_content)
    /\ doc_pc' = "cleaned"
    /\ UNCHANGED <<fn, inp, hist, html_replacements, article_content, text_node>>
    /\ UNCHANGED reparseVars
    /\ UNCHANGED callVars
    /\ UNCHANGED batchVars

MaxDocBlocks == 2     \* blocks in one content region

DocBlocks ==
  {
    <<Node("text", <<"a">>)>>,
    <<Node("text", <<" ">>)>>,
    <<Node("comment", <<" ","o","n","a"," ">>)>>,
    <<Node("comment", <<"A">>)>>,
    <<Node("tag", <<"<","s","t","r","o","n","g",">">>), Node("text", <<"b">>), Node("tag", <<"<","/","s","t","r","o","n","g",">">>)>>
  }

\* a parser never leaves two texts side by side
NoAdjacentTexts(nodes) ==
    \A k \in 1..(Len(nodes) - 1) : ~(nodes[k].kind = "text" /\ nodes[k + 1].kind = "text")

\* translated_content = deepcopy(article_data['content'])
InitDoc ==
    /\ fn = "translate_html_content"
    /\ article_content \in {d \in Texts(DocBlocks, MaxDocBlocks) : NoAdjacentTexts(d)}
    /\ translated_content = article_content
    /\ text_node = 0
    /\ doc_pc = "walk"
    /\ fixed_soup = <<>>
    /\ child_index = 0
    /\ inp = <<>>
    /\ hist = <<>>
    /\ html_replacements = NoAttr
    /\ pc = "none"
    /\ preprocessed_text = None
    /\ attempt = 0
    /\ long_sentences = <<>>
    /\ part = 0
    /\ current_chunk = <<>>
    /\ translated_parts = <<>>
    /\ translated = None
    /\ ret = None
    /\ log = <<>>
    /\ NoBatch

NextDoc ==
    \/ Next_text_node
    \/ Call_translate_text
    \/ Attempt_translated
    \/ Attempt_failed
    \/ Step_apply_critical_terms
    \/ Step_fix_html_spacing
    \/ Step_post_translation_spacing_fix
    \/ Step_fix_capitalization
    \/ Step_force_strong_tag_spacing
    \/ Step_final_passes
    \/ Write_back
    \/ Fix_document_spacing
    \/ Clean_document

SpecDoc == InitDoc /\ [][NextDoc]_vars

\* the texts of the nodes of the given kind, one after the other
TextOf(nodes, kind) ==
    Join([k \in 1..Len(nodes) |-> IF nodes[k].kind = kind THEN nodes[k].string ELSE <<>>])

\* the words of the comments of the region that stand in none of its texts
CommentWords(nodes) ==
    {LowerText(strip(nodes[k].string)) : k \in {j \in 1..Len(nodes) :
        /\ nodes[j].kind = "comment"
        /\ HasVisible(nodes[j].string)
        /\ ~Contains(LowerText(TextOf(nodes, "text")), LowerText(strip(nodes[j].string)))}}

\* C15: for every document and every reply of the engine, after
\* translate_html_content and clean_html_content the region holds no comment, and
\* no text of the region shows what stood inside a comment of the input.
C15_CommentsStripped ==
    (fn = "translate_html_content" /\ doc_pc = "cleaned") =>
        /\ \A k \in 1..Len(translated_content) : translated_content[k].kind # "comment"
        /\ \A w \in CommentWords(article_content) :
              ~Contains(LowerText(TextOf(translated_content, "text")), w)


-----------------------------------------------------------------------------
(* force_strong_tag_spacing on its own (article_translator.py, lines        *)
(* 523-680).                                                                *)

MaxStrongBlocks == 3  \* blocks in one input of force_strong_tag_spacing

StrongBlocks ==
  {
    <<"<","s","t","r","o","n","g",">">>,
    <<"<","/","s","t","r","o","n","g",">">>,
    <<"(">>,
    <<"a">>,
    <<" ">>
  }

InitStrong ==
    /\ fn = "force_strong_tag_spacing"
    /\ inp \in Texts(StrongBlocks, MaxStrongBlocks)
    /\ hist = <<>>
    /\ html_replacements = NoAttr
    /\ NoCall

Apply_force_strong_tag_spacing ==
    /\ fn = "force_strong_tag_spacing"
    /\ Len(hist) < MaxApply
    /\ hist' = Append(hist, force_strong_tag_spacing(Latest))
    /\ UNCHANGED <<fn, inp, html_replacements>>
    /\ UNCHANGED outerVars
    /\ UNCHANGED callVars

NextStrong == Apply_force_strong_tag_spacing

SpecStrong == InitStrong /\ [][NextStrong]_vars

\* re.search(r'[^\s]<strong', s) or re.search(r'</strong>[^\s]', s)
StrongTouchesText(s) ==
    \/ NextMatch(<<NotOne(White), Lit(strong_open)>>, s, 1, FALSE) # 0
    \/ NextMatch(<<Lit(strong_close), NotOne(White)>>, s, 1, FALSE) # 0

\* C16: for every input, the result of force_strong_tag_spacing has no
\* non-whitespace character directly before a '<strong' and none directly after a
\* '</strong>'.
C16_StrongSpacing ==
    (fn = "force_strong_tag_spacing" /\ Len(hist) >= 1) => ~StrongTouchesText(hist[1])


-----------------------------------------------------------------------------
(* The two entry points for a text, translate_text and                      *)
(* translate_with_google, on texts with and without visible characters.     *)

MaxEntryBlocks == 2   \* blocks in one text handed to an entry point

EntryBlocks ==
  {
    <<" ">>,
    <<"\n">>,
    <<"a">>,
    <<Filler>>
  }

InitEntry ==
    /\ fn \in {"translate_text", "translate_with_google"}
    /\ inp \in Texts(EntryBlocks, MaxEntryBlocks)
    /\ hist = <<>>
    /\ html_replacements = NoAttr
    /\ Idle("call")

NextEntry ==
    \/ Call_translate_text
    \/ Call_translate_with_google
    \/ Attempt_translated
    \/ Attempt_failed
    \/ Chunk_translated
    \/ Chunk_failed
    \/ Step_apply_critical_terms
    \/ Step_fix_html_spacing
    \/ Step_post_translation_spacing_fix
    \/ Step_fix_capitalization
    \/ Step_force_strong_tag_spacing
    \/ Step_final_passes

SpecEntry == InitEntry /\ [][NextEntry]_vars

\* C17: for an empty or whitespace-only text, translate_text and
\* translate_with_google call the engine at no time and return the text they were
\* given.
C17_BlankPassthrough ==
    (fn \in {"translate_text", "translate_with_google"} /\ ~HasVisible(inp)) =>
        /\ log = <<>>
        /\ html_replacements = NoAttr
        /\ pc = "done" => ret = inp

\* translate_text has returned a text of a space and a line break
C17_Witness ==
    /\ fn = "translate_text"
    /\ inp = <<" ", "\n">>
    /\ pc = "done"
    /\ ret = inp
    /\ log = <<>>


-----------------------------------------------------------------------------
(* ArticleTranslator.extract_article_data and the start of translate_article *)
(* (article_translator.py, lines 713-770 and 1195-1213).  A parsed document  *)
(* is the sequence of its elements in document order; an element is its name, *)
(* its class and its id. The parser 'html.parser' adds no element of its own:  *)
(* a document has a body only when its text has one.                         *)

Element(name, class, id) == <<name, class, id>>
ByName == 1           \* the places of an element that a selector looks at
ByClass == 2
ById == 3

\* article_selectors, in the order of the list
article_selectors ==
  <<
    [by |-> ByName, value |-> "article"],
    [by |-> ByClass, value |-> "article-content"],
    [by |-> ByClass, value |-> "post-content"],
    [by |-> ByClass, value |-> "entry-content"],
    [by |-> ById, value |-> "content"],
    [by |-> ByClass, value |-> "content"],
    [by |-> ByName, value |-> "main"]
  >>

\* the element is matched by the selector
Selects(selector, el) == el[selector.by] = selector.value

\* the first element of the list that satisfies the test, None when there is none
FirstOf(elements, hits) ==
    IF hits = {} THEN None ELSE elements[CHOOSE k \in hits : \A l \in hits : k <= l]

\* soup.select_one(selector)
select_one(soup, selector) ==
    FirstOf(soup, {k \in 1..Len(soup) : Selects(selector, soup[k])})

\* soup.find('body')
find_body(soup) == FirstOf(soup, {k \in 1..Len(soup) : soup[k][ByName] = "body"})

\* the loop over article_selectors from selector k on: the first element found
RECURSIVE SelectFrom(_, _)
SelectFrom(soup, k) ==
    IF k > Len(article_selectors) THEN None
    ELSE IF select_one(soup, article_selectors[k]) # None
    THEN select_one(soup, article_selectors[k])
    ELSE SelectFrom(soup, k + 1)

\* article_data['content'] of extract_article_data(html_content, url)
extract_article_data(soup) ==
    IF SelectFrom(soup, 1) # None THEN SelectFrom(soup, 1) ELSE find_body(soup)

Extract_article_data ==
    /\ fn = "translate_article"
    /\ doc_pc = "none"
    /\ article_content' = extract_article_data(inp)
    /\ doc_pc' = "extracted"
    /\ UNCHANGED <<fn, inp, hist, html_replacements, translated_content, text_node>>
    /\ UNCHANGED reparseVars
    /\ UNCHANGED callVars
    /\ UNCHANGED batchVars

\* translated_content = deepcopy(article_data['content']) and the call of
\* translate_html_content, whose first step soup.find_all raises AttributeError
\* when the region is None
Start_translation ==
    /\ fn = "translate_article"
    /\ doc_pc = "extracted"
    /\ translated_content' = article_content
    /\ doc_pc' = IF article_content = None THEN "raised" ELSE "walk"
    /\ UNCHANGED <<fn, inp, hist, html_replacements, article_content, text_node>>
    /\ UNCHANGED reparseVars
    /\ UNCHANGED callVars
    /\ UNCHANGED batchVars

MaxElements == 2      \* elements in one document

Elements ==
  {
    Element("article", "", ""),
    Element("div", "article-content", ""),
    Element("div", "post-content", ""),
    Element("div", "entry-content", ""),
    Element("div", "", "content"),
    Element("div", "content", ""),
    Element("main", "", ""),
    Element("body", "", ""),
    Element("p", "", "")
  }

RECURSIVE Documents(_)
Documents(n) ==
    IF n = 0 THEN {<<>>}
    ELSE Documents(n - 1) \cup {Append(d, e) : d \in Documents(n - 1), e \in Elements}

InitExtract ==
    /\ fn = "translate_article"
    /\ inp \in Documents(MaxElements)
    /\ hist = <<>>
    /\ html_replacements = NoAttr
    /\ NoCall

NextExtract == Extract_article_data \/ Start_translation

SpecExtract == InitExtract /\ [][NextExtract]_vars

\* the selectors that match some element of the document
Matching(soup) ==
    {k \in 1..Len(article_selectors) : \E j \in 1..Len(soup) : Selects(article_selectors[k], soup[j])}

\* the region the description asks for: the first element of the first selector that
\* matches, the body otherwise
ExpectedRegion(soup) ==
    IF Matching(soup) # {}
    THEN select_one(soup, article_selectors[CHOOSE k \in Matching(soup) :
                                               \A l \in Matching(soup) : k <= l])
    ELSE find_body(soup)

\* C18: extract_article_data gives the element of the first selector of the list that
\* matches and the body otherwise, and for every document, also one that no selector
\* matches, translate_article goes on with a content region and does not fail for want
\* of one.
C18_ContentRegion ==
    (fn = "translate_article" /\ doc_pc # "none") =>
        /\ article_content = ExpectedRegion(inp)
        /\ doc_pc # "raised"
        /\ doc_pc = "walk" => translated_content # None


-----------------------------------------------------------------------------
(* The two ways apply_critical_terms matches a table entry                  *)
(* (article_translator.py, lines 232-240), on texts with the terms in       *)
(* several letter cases, as words and inside longer words.                  *)

MaxModeBlocks == 3    \* blocks in one input

ModeBlocks ==
  {
    <<"s","k","i","c","i","p">>,
    <<"S","k","i","c","i","p">>,
    <<"L","i","f","e","s","y","n","c">>,
    <<"l","i","f","e","s","y","n","c">>,
    <<"K","U","R","Z","U">>,
    <<"F","o","t","o","r","e","a","l","i","s","t","i","c","k","e'">>,
    <<"x">>,
    <<" ">>
  }

InitModes ==
    /\ fn = "apply_critical_terms"
    /\ inp \in Texts(ModeBlocks, MaxModeBlocks)
    /\ hist = <<>>
    /\ html_replacements = NoAttr
    /\ NoCall

SpecModes == InitModes /\ [][NextTerms]_vars

\* term stands in s at position i as a whole word, in any letter case
WholeWordAt(s, i, term) ==
    /\ LitAt(term, s, i, TRUE)
    /\ ~WordAt(s, i - 1)
    /\ ~WordAt(s, i + Len(term))

WordCount(s, term) == Cardinality({i \in 1..Len(s) : WholeWordAt(s, i, term)})

ExactEntries == {k \in 1..Len(critical_terms) : IsExactTerm(critical_terms[k][1])}
CommonEntries == (1..Len(critical_terms)) \ ExactEntries

\* no entry of the table applies to s: no exact term stands in s letter for letter and
\* no common term stands in s as a whole word
NothingToReplace(s) ==
    /\ \A k \in ExactEntries : ~Contains(s, critical_terms[k][1])
    /\ \A k \in CommonEntries :
          \A i \in 1..Len(s) : ~WholeWordAt(s, i, critical_terms[k][1])

\* C19: apply_critical_terms replaces an exact entry where it stands letter for letter
\* and nowhere else; of every other entry it replaces every whole-word occurrence in
\* any letter case by the canonical term and leaves the occurrences inside longer
\* words alone, so that 'Skicip' as a word becomes 'SketchUp'.
C19_MatchingModes ==
    (fn = "apply_critical_terms" /\ Len(hist) >= 1) =>
        LET out == hist[1] IN
        /\ \A k \in CommonEntries : \A i \in 1..Len(out) :
              WholeWordAt(out, i, critical_terms[k][1]) =>
                  LitAt(critical_terms[k][2], out, i, FALSE)
        /\ \A k \in ExactEntries :
              critical_terms[k][1] # critical_terms[k][2] =>
                  ~Contains(out, critical_terms[k][1])
        /\ NothingToReplace(inp) => out = inp
        /\ str_count(out, <<"S","k","e","t","c","h","U","p">>) =
               str_count(inp, <<"S","k","e","t","c","h","U","p">>) + WordCount(inp, <<"s","k","i","c","i","p">>)
        /\ str_count(out, <<"L","i","v","e","S","y","n","c">>) =
               str_count(inp, <<"L","i","v","e","S","y","n","c">>) + str_count(inp, <<"L","i","f","e","s","y","n","c">>)

\* 'Skicip' as a word is replaced, 'lifesync' in another letter case than the exact
\* entry 'Lifesync' is not
C19_Witness ==
    /\ fn = "apply_critical_terms"
    /\ Len(hist) >= 1
    /\ inp = <<"S","k","i","c","i","p"," ","l","i","f","e","s","y","n","c">>
    /\ hist[1] = <<"S","k","e","t","c","h","U","p"," ","l","i","f","e","s","y","n","c">>


-----------------------------------------------------------------------------
(* The order of the stages of translate_text (article_translator.py, lines  *)
(* 244-366).                                                                *)

\* the positions of a call of translate_text, in the order of the source
StageOrder ==
    <<"call", "attempt", "chunk", "apply_critical_terms", "fix_html_spacing",
      "post_translation_spacing_fix", "fix_capitalization", "force_strong_tag_spacing",
      "final_passes", "done">>

Rank(p) == CHOOSE k \in 1..Len(StageOrder) : StageOrder[k] = p

\* fix_capitalization has run and translate_text has not returned yet
AfterCapitalization == Rank(pc) > Rank("fix_capitalization") /\ pc # "done"

\* C20: translate_text runs shield, engine, unshield, term override, spacing
\* reconciliation and capitalization in this order, no stage runs again after a later
\* one, and capitalization is the last transformation: once it has run, the text is
\* returned as it is.
C20_StageOrder ==
    [][fn = "translate_text" =>
          /\ Rank(pc') >= Rank(pc)
          /\ AfterCapitalization => translated' = translated]_vars

\* the stages never go back; only the part of C20 about the order
C20_OrderOnly ==
    [][fn = "translate_text" => Rank(pc') >= Rank(pc)]_vars

-----------------------------------------------------------------------------
(* A text unit whose engine calls all fail (translate_text, lines 244-366, *)
(* called by the walker of translate_html_content, lines 916-920).          *)

\* the stages of translate_text after translate_with_google, applied to text
downstream_stages(text) ==
    RunPasses(final_passes,
        force_strong_tag_spacing(
            fix_capitalization(
                post_translation_spacing_fix(
                    fix_html_spacing(
                        apply_critical_terms(text))))))

\* the single call was tried max_retries times and the engine raised every time
AllAttemptsFailed ==
    /\ Len(Calls) = max_retries
    /\ \A k \in 1..Len(Calls) : ~Calls[k].ok

\* the walker stands between two units: it takes the next string or leaves the loop
BetweenUnits == fn = "translate_html_content" /\ doc_pc = "walk" /\ pc = "none"

\* C21: when the engine fails on every attempt for a text unit, translate_text goes
\* on through term override, spacing reconciliation and capitalization and returns
\* their result on the fallback text; the result stands in the place of the unit
\* and the walker stands ready for the next unit.
C21_FailureAbsorbed ==
    (fn = "translate_html_content" /\ doc_pc = "walk" /\ AllAttemptsFailed) =>
        /\ pc # "none" => Rank(pc) > Rank("chunk")
        /\ pc = "done" => ret = downstream_stages(preprocessed_text)
        /\ pc = "none" =>
              /\ ret = downstream_stages(preprocessed_text)
              /\ \/ translated_content[text_node].string = ret
                 \/ /\ ret = strip(article_content[text_node].string)
                    /\ translated_content[text_node] = article_content[text_node]

\* the unit 'a' failed three times, 'A' was written in its place, and the walker
\* stands before the next unit
C21_Witness ==
    /\ BetweenUnits /\ AllAttemptsFailed
    /\ article_content[text_node].string = <<"a">>
    /\ translated_content[text_node].string = <<"A">>
    /\ NextString(translated_content, text_node) # 0

-----------------------------------------------------------------------------
(* The calls of the engine in the chunked path (_translate_long_text,       *)
(* lines 181-220).                                                          *)

\* the requests k - n + 1 .. k of the engine are n failed calls for the same text
FailedRun(k, n) ==
    /\ k >= n
    /\ \A j \in (k - n + 1)..k : ~Calls[j].ok /\ Calls[j].req = Calls[k].req

\* C22: in the chunked path a chunk whose engine call fails is tried again, up to
\* max_retries attempts, before the chunk is passed through: when the method has
\* returned, every failed call is followed by a call for the same chunk or closes
\* a run of max_retries failed calls for it.
C22_ChunkRetry ==
    (fn = "translate_with_google" /\ pc = "done" /\ LongPath) =>
        \A k \in 1..Len(Calls) :
            ~Calls[k].ok =>
                \/ k < Len(Calls) /\ Calls[k + 1].req = Calls[k].req
                \/ FailedRun(k, max_retries)

\* C23: for every text with inline tags whose shielded form exceeds the threshold,
\* with an engine that returns its input unchanged, the text translate_with_google
\* returns holds every tag of the input verbatim and in order, and no placeholder.
C23_ChunkedTagsRestored ==
    (/\ fn = "translate_with_google" /\ pc = "done"
     /\ LongPath /\ EngineEchoes /\ InlineTags(inp) # <<>>) =>
        /\ InlineTags(ret) = InlineTags(inp)
        /\ ~HasPlaceholder(ret)

\* C24: on every path (single call, retry, chunked) the text passed to the engine
\* holds no opening or closing strong/em/b/i/u/span tag.
C24_NoRawTagToEngine ==
    \A k \in 1..Len(Calls) : InlineTags(Calls[k].req) = <<>>

\* a text with a tag went to the engine in two chunks, the first of which failed
C24_Witness ==
    /\ fn = "translate_with_google" /\ pc = "done" /\ LongPath
    /\ InlineTags(inp) # <<>>
    /\ Len(Calls) = 2 /\ ~Calls[1].ok /\ Calls[2].ok
    /\ HasPlaceholder(Calls[1].req)

-----------------------------------------------------------------------------
(* The camel-case pass of fix_html_spacing (PHASE 5, lines 444-446) on      *)
(* words made of a run of lower-case letters and a brand continuation.      *)

MaxCamelBlocks == 2   \* blocks in one input of fix_html_spacing

CamelBlocks ==
    {<<"s","e","t">>, <<"a","b"," ">>, <<"X">>}
        \cup {brand_continuations[k] : k \in 1..Len(brand_continuations)}

InitCamel ==
    /\ fn = "fix_html_spacing"
    /\ inp \in Texts(CamelBlocks, MaxCamelBlocks)
    /\ hist = <<>>
    /\ html_replacements = NoAttr
    /\ NoCall

SpecCamel == InitCamel /\ [][NextSpacing]_vars

\* the words of the texts above that are a lower-case run and a listed continuation
camel_words == [k \in 1..Len(brand_continuations) |-> <<"s","e","t">> \o brand_continuations[k]]

\* C25: the camel-case split is not applied where the upper-case suffix begins with
\* one of Up, Sync, Render, Max, CAD, Live: every word made of a lower-case run and
\* a listed suffix stands unsplit in the result of fix_html_spacing.
C25_CamelException ==
    fn = "fix_html_spacing" =>
        \A k \in 1..Len(hist) : \A w \in 1..Len(camel_words) :
            str_count(hist[k], camel_words[w]) >= str_count(Given(k), camel_words[w])

-----------------------------------------------------------------------------
(* What the walker of translate_html_content (lines 916-920) leaves alone.  *)

MaxFrameBlocks == 3   \* nodes in one content region

FrameBlocks ==
  {
    <<Node("text", <<" ","A"," ">>)>>,
    <<Node("text", <<"a"," ">>)>>,
    <<Node("text", <<" ">>)>>,
    <<Node("text", <<"\n"," ">>)>>,
    <<Node("tag", <<"<","b","r",">">>)>>
  }

InitFrame ==
    /\ fn = "translate_html_content"
    /\ article_content \in {d \in Texts(FrameBlocks, MaxFrameBlocks) : NoAdjacentTexts(d)}
    /\ translated_content = article_content
    /\ text_node = 0
    /\ doc_pc = "walk"
    /\ fixed_soup = <<>>
    /\ child_index = 0
    /\ inp = <<>>
    /\ hist = <<>>
    /\ html_replacements = NoAttr
    /\ pc = "none"
    /\ preprocessed_text = None
    /\ attempt = 0
    /\ long_sentences = <<>>
    /\ part = 0
    /\ current_chunk = <<>>
    /\ translated_parts = <<>>
    /\ translated = None
    /\ ret = None
    /\ log = <<>>
    /\ NoBatch

SpecFrame == InitFrame /\ [][NextDoc]_vars

\* the walker has dealt with node k: it has passed it, or stands on it with the
\* result written back
Visited(k) == k < text_node \/ (k = text_node /\ pc = "none")

-----------------------------------------------------------------------------
(* ArticleTranslator.get_czech_cta_links (article_translator.py, lines      *)
(* 826-890).  A link path is written as the sequence of its segments and    *)
(* slashes: '/kurzy/revit-kurz/' is <<"/", "kurzy", "/", "revit-kurz", "/">>.*)
(* An href is a text, as everywhere in this module.                         *)

Path1(a) == <<"/", a, "/">>
Path2(a, b) == <<"/", a, "/", b, "/">>

\* the tables of one software: product, courses, tutorials, licenses
SoftwareLinks(name) ==
    [product |-> Path1(name), courses |-> Path2("kurzy", name \o "-kurz"),
     tutorials |-> Path2("navody", name), licenses |-> Path1(name \o "-licence")]

czech_links ==
    [n \in {"sketchup", "d5-render", "archicad", "revit", "rhino"} |-> SoftwareLinks(n)] @@
    ("general" :> [product |-> Path1("software"), courses |-> Path1("kurzy"),
                   tutorials |-> Path1("navody"), contact |-> Path1("kontakt"),
                   consultation |-> Path1("konzultace")])

\* the if/elif chain of lines 879-887: the words looked for in the lower-cased href,
\* the kind of link asked for, and the default of the inner .get
link_rules_CourseFirst ==
  <<
    [words |-> {<<"k","u","r","z">>, <<"s","k","o","l","e","n","i">>,
                <<"t","r","a","i","n","i","n","g">>, <<"l","e","a","r","n">>},
     kind |-> "courses", default |-> Path1("kurzy")],
    [words |-> {<<"l","i","c","e","n","c">>, <<"l","i","c","e","n","s","e">>,
                <<"p","r","e","d","a","j">>, <<"s","h","o","p">>},
     kind |-> "licenses", default |-> Path1("software")],
    [words |-> {<<"n","a","v","o","d">>, <<"t","u","t","o","r","i","a","l">>,
                <<"g","u","i","d","e">>, <<"h","e","l","p">>},
     kind |-> "tutorials", default |-> Path1("navody")],
    [words |-> {<<"k","o","n","t","a","k","t">>, <<"c","o","n","t","a","c","t">>,
                <<"k","o","n","z","u","l","t","a","c">>},
     kind |-> "consultation", default |-> Path1("konzultace")]
  >>
link_rules ==
  <<
    [words |-> {<<"l","i","c","e","n","c">>, <<"l","i","c","e","n","s","e">>,
                <<"p","r","e","d","a","j">>, <<"s","h","o","p">>},
     kind |-> "licenses", default |-> Path1("software")],
    [words |-> {<<"k","u","r","z">>, <<"s","k","o","l","e","n","i">>,
                <<"t","r","a","i","n","i","n","g">>, <<"l","e","a","r","n">>},
     kind |-> "courses", default |-> Path1("kurzy")],
    [words |-> {<<"n","a","v","o","d">>, <<"t","u","t","o","r","i","a","l">>,
                <<"g","u","i","d","e">>, <<"h","e","l","p">>},
     kind |-> "tutorials", default |-> Path1("navody")],
    [words |-> {<<"k","o","n","t","a","k","t">>, <<"c","o","n","t","a","c","t">>,
                <<"k","o","n","z","u","l","t","a","c">>},
     kind |-> "consultation", default |-> Path1("konzultace")]
  >>

\* any(word in original_lower for word in [...])
AnyWordIn(words, original_lower) == \E w \in words : Contains(original_lower, w)

\* czech_links.get(primary_software, czech_links['general']).get(kind, default)
LinkOf(primary_software, kind, default) ==
    LET table == IF primary_software \in DOMAIN czech_links
                 THEN czech_links[primary_software] ELSE czech_links["general"] IN
    IF kind \in DOMAIN table THEN table[kind] ELSE default

\* the chain from rule k on; after the last rule: the product page
RECURSIVE LinkFrom(_, _, _)
LinkFrom(primary_software, original_lower, k) ==
    IF k > Len(link_rules) THEN LinkOf(primary_software, "product", Path1("software"))
    ELSE IF AnyWordIn(link_rules[k].words, original_lower)
    THEN LinkOf(primary_software, link_rules[k].kind, link_rules[k].default)
    ELSE LinkFrom(primary_software, original_lower, k + 1)

get_czech_cta_links(software_list, original_href) ==
    LET list == IF software_list = <<>> THEN <<"general">> ELSE software_list IN
    LinkFrom(list[1], LowerText(original_href), 1)

MaxHrefBlocks == 2    \* blocks in one href, after the leading slash
MaxSoftware == 2      \* detected topics in one software_list

HrefBlocks ==
  {
    <<"s","h","o","p">>,
    <<"K","u","r","z">>,
    <<"n","a","v","o","d">>,
    <<"k","o","n","t","a","k","t">>,
    <<"l","i","c","e","n","c">>,
    <<"x","/">>
  }

\* names detect_software_topic can give: with a table and without one
Software == {"sketchup", "d5-render", "rhino", "blender"}

InitLinks ==
    /\ fn = "get_czech_cta_links"
    /\ inp \in [software_list : Texts({<<n>> : n \in Software}, MaxSoftware),
                original_href : {<<"/">> \o h : h \in Texts(HrefBlocks, MaxHrefBlocks)}]
    /\ hist = <<>>
    /\ html_replacements = NoAttr
    /\ NoCall

Apply_get_czech_cta_links ==
    /\ fn = "get_czech_cta_links"
    /\ hist = <<>>
    /\ hist' = <<get_czech_cta_links(inp.software_list, inp.original_href)>>
    /\ UNCHANGED <<fn, inp, html_replacements>>
    /\ UNCHANGED outerVars
    /\ UNCHANGED callVars

NextLinks == Apply_get_czech_cta_links

SpecLinks == InitLinks /\ [][NextLinks]_vars

\* the href names the category: one of its words stands in the href, in any case
Names(category, href) == AnyWordIn(category, LowerText(href))


\* the kind of link the href asks for: the first category it names
KindOf(href) ==
    IF Names({<<"l","i","c","e","n","c">>, <<"l","i","c","e","n","s","e">>,
              <<"p","r","e","d","a","j">>, <<"s","h","o","p">>}, href) THEN "licenses"
    ELSE IF Names({<<"k","u","r","z">>, <<"s","k","o","l","e","n","i">>,
                   <<"t","r","a","i","n","i","n","g">>, <<"l","e","a","r","n">>}, href)
    THEN "courses"
    ELSE IF Names({<<"n","a","v","o","d">>, <<"t","u","t","o","r","i","a","l">>,
                   <<"g","u","i","d","e">>, <<"h","e","l","p">>}, href) THEN "tutorials"
    ELSE IF Names({<<"k","o","n","t","a","k","t">>, <<"c","o","n","t","a","c","t">>,
                   <<"k","o","n","z","u","l","t","a","c">>}, href) THEN "consultation"
    ELSE "product"

\* every link of every table
ConfiguredPaths ==
    UNION {{czech_links[t][k] : k \in DOMAIN czech_links[t]} : t \in DOMAIN czech_links}

GenericPaths == {czech_links["general"][k] : k \in DOMAIN czech_links["general"]}

\* C27: get_czech_cta_links classifies the href by the first category it names, in
\* the order license/shop, course/training, tutorial/guide, contact/consultation,
\* else product page; it returns the link of that kind of the first detected topic,
\* or a link of the generic table (the one of that kind where the table has one)
\* when no topic was detected, the topic has no table or the table lacks the kind;
\* the result is one of the configured paths and begins at the site root.
C27_LinkClassification ==
    (fn = "get_czech_cta_links" /\ hist # <<>>) =>
        LET kind == KindOf(inp.original_href)
            generic == czech_links["general"]
            topical == inp.software_list # <<>>
                         /\ inp.software_list[1] \in DOMAIN czech_links
                         /\ kind \in DOMAIN czech_links[inp.software_list[1]] IN
        /\ topical => hist[1] = czech_links[inp.software_list[1]][kind]
        /\ ~topical => hist[1] \in GenericPaths
        /\ (~topical /\ kind \in DOMAIN generic) => hist[1] = generic[kind]
        /\ hist[1] \in ConfiguredPaths
        /\ hist[1][1] = "/"

\* an href that names a course and a shop, for a detected sketchup topic: the
\* licence link of the topic
C27_Witness ==
    /\ fn = "get_czech_cta_links" /\ hist # <<>>
    /\ inp.software_list = <<"sketchup", "rhino">>
    /\ inp.original_href = <<"/","K","u","r","z","s","h","o","p">>
    /\ hist[1] = <<"/", "sketchup-licence", "/">>

\* C28: in the chunked path every text handed to the engine is shorter than the
\* threshold of 4500 characters, whatever the lengths of the sentence segments.
C28_ChunkSize ==
    (fn = "translate_with_google" /\ LongPath) =>
        \A k \in 1..Len(Calls) : PyLen(Calls[k].req) < ChunkLimit

-----------------------------------------------------------------------------
(* The last step of translate_html_content (lines 928-941) on a document    *)
(* with several top-level nodes, as in test_complete_translation.py, where  *)
(* soup is the parsed document itself.  A top-level node is a text, a       *)
(* comment or an element; an element is kept whole, as its markup.  The     *)
(* parser library moves a node that is appended to another tree: append     *)
(* takes it out of the contents of its old parent, and .children iterates   *)
(* over those contents by position.  Every node has the attribute name (a   *)
(* string has the name None).                                               *)

\* str(soup) of a document: the markup of its top-level nodes, one after the other
Serialized(nodes) == Join([k \in 1..Len(nodes) |-> Render(nodes[k])])

\* the top-level nodes of the markup s from position i on; an element runs from its
\* opening tag to the closing tag of the same name
RECURSIVE TopLevelFrom(_, _)
TopLevelFrom(s, i) ==
    IF i > Len(s) THEN <<>>
    ELSE IF LitAt(CommentOpen, s, i, FALSE)
    THEN LET j == NextMatch(<<Lit(CommentClose)>>, s, i + Len(CommentOpen), FALSE) IN
         IF j = 0 THEN <<Node("comment", SubSeq(s, i + Len(CommentOpen), Len(s)))>>
         ELSE <<Node("comment", SubSeq(s, i + Len(CommentOpen), j - 1))>>
                  \o TopLevelFrom(s, j + Len(CommentClose))
    ELSE IF s[i] = "<"
    THEN LET j == NextMatch(<<Lit(<<">">>)>>, s, i, FALSE)
             name == SubSeq(s, i + 1, j - 1)
             close == <<"<", "/">> \o name \o <<">">>
             e == IF j = 0 THEN 0 ELSE NextMatch(<<Lit(close)>>, s, j + 1, FALSE) IN
         IF e = 0 THEN <<Node("element", SubSeq(s, i, Len(s)))>>
         ELSE <<Node("element", SubSeq(s, i, e + Len(close) - 1))>>
                  \o TopLevelFrom(s, e + Len(close))
    ELSE LET j == NextMatch(<<Lit(<<"<">>)>>, s, i, FALSE)
             e == IF j = 0 THEN Len(s) + 1 ELSE j IN
         <<Node("text", SubSeq(s, i, e - 1))>> \o TopLevelFrom(s, e)

\* soup_str = force_strong_tag_spacing(str(soup));
\* fixed_soup = BeautifulSoup(soup_str, 'html.parser'); soup.clear()
Reparse_document ==
    /\ fn = "translate_html_content"
    /\ doc_pc = "walked"
    /\ fixed_soup' = TopLevelFrom(force_strong_tag_spacing(Serialized(translated_content)), 1)
    /\ child_index' = 0
    /\ translated_content' = <<>>
    /\ doc_pc' = "append"
    /\ UNCHANGED <<fn, inp, hist, html_replacements, article_content, text_node>>
    /\ UNCHANGED callVars
    /\ UNCHANGED batchVars

\* hasattr(child, 'name')
has_name(child) == child.kind \in {"element", "text", "comment"}

\* child.extract(), which append does to a node that has a parent
Extracted(contents, k) == SubSeq(contents, 1, k - 1) \o SubSeq(contents, k + 1, Len(contents))

\* one round of: for child in fixed_soup.children: if hasattr(child, 'name'):
\* soup.append(child)
Append_child ==
    /\ fn = "translate_html_content"
    /\ doc_pc = "append"
    /\ child_index < Len(fixed_soup)
    /\ child_index' = child_index + 1
    /\ LET child == fixed_soup[child_index + 1] IN
       IF has_name(child)
       THEN /\ translated_content' = Append(translated_content, child)
            /\ fixed_soup' = Extracted(fixed_soup, child_index + 1)
       ELSE UNCHANGED <<translated_content, fixed_soup>>
    /\ UNCHANGED <<fn, inp, hist, html_replacements, article_content, text_node, doc_pc>>
    /\ UNCHANGED callVars
    /\ UNCHANGED batchVars

\* the iterator finds no node at its position: the loop and the method end
End_of_children ==
    /\ fn = "translate_html_content"
    /\ doc_pc = "append"
    /\ child_index >= Len(fixed_soup)
    /\ doc_pc' = "appended"
    /\ UNCHANGED <<fn, inp, hist, html_replacements, article_content, translated_content,
                   text_node>>
    /\ UNCHANGED reparseVars
    /\ UNCHANGED callVars
    /\ UNCHANGED batchVars

MaxTopNodes == 3      \* top-level nodes in one document

TopBlocks ==
  {
    Node("text", <<"\n">>),
    Node("comment", <<"x">>),
    Node("element", <<"<","p",">","a","<","/","p",">">>),
    Node("element", <<"<","d","i","v",">","<","p",">","b","<","/","p",">","<","/","d","i","v",">">>)
  }

\* the document after the walker: inp is the list of its top-level nodes
InitAppend ==
    /\ fn = "translate_html_content"
    /\ inp \in {d \in Texts({<<n>> : n \in TopBlocks}, MaxTopNodes) : NoAdjacentTexts(d)}
    /\ hist = <<>>
    /\ html_replacements = NoAttr
    /\ pc = "none"
    /\ preprocessed_text = None
    /\ attempt = 0
    /\ long_sentences = <<>>
    /\ part = 0
    /\ current_chunk = <<>>
    /\ translated_parts = <<>>
    /\ translated = None
    /\ ret = None
    /\ log = <<>>
    /\ article_content = inp
    /\ translated_content = inp
    /\ text_node = 0
    /\ doc_pc = "walked"
    /\ fixed_soup = <<>>
    /\ child_index = 0
    /\ NoBatch

NextAppend ==
    \/ Reparse_document
    \/ Append_child
    \/ End_of_children

SpecAppend == InitAppend /\ [][NextAppend]_vars

IsElement(n) == n.kind = "element"

\* C29: the last step of translate_html_content loses nothing: for any number of
\* top-level nodes, every element of the re-parsed document is in the tree
\* afterwards, once and in the original order.
C29_ReappendComplete ==
    (fn = "translate_html_content" /\ doc_pc = "appended") =>
        SelectSeq(translated_content, IsElement) = SelectSeq(inp, IsElement)

\* the re-parsed document is the document that was serialized
C29_ReparseKeeps ==
    (fn = "translate_html_content" /\ doc_pc = "append" /\ child_index = 0) =>
        fixed_soup = inp

\* C30: for every text with inline tags and an engine that returns its input
\* unchanged, the text translate_text returns holds each inline tag of the input
\* verbatim (same characters, same letter case, same attributes) and in the
\* original order: the stages after the engine change only text outside the tags.
C30_MarkupPreserved ==
    (/\ fn = "translate_text" /\ pc = "done"
     /\ ShortPath /\ EngineEchoes /\ InlineTags(inp) # <<>>) =>
        InlineTags(ret) = InlineTags(inp)

====
